---------------------------- MODULE Spec2Model ----------------------------
(***************************************************************************)
(* The canvas session layer of components/canvas/canvas_session.rs:        *)
(*   - the canvas actor (run_canvas_session) serving the CanvasOps menu    *)
(*     behind a shared channel,                                            *)
(*   - the client batching layer (CanvasSession: send_canvas_message,      *)
(*     flush_messages, get_shared_channel, send_canvas_messages),          *)
(*   - the cross-actor transfer draw_image_in_other.                       *)
(* and the OffscreenCanvas of components/script/dom/offscreencanvas.rs,     *)
(* whose fetch_all_data is a client of the canvas actor.                   *)
(*                                                                         *)
(* The raster surface (CanvasData) is an opaque collaborator: its state is *)
(* the sequence of calls the actor has made on it, and the value of a      *)
(* query is the query together with the surface state it was made on.      *)
(*                                                                         *)
(* Shared channels follow ferrite_session: an acquisition is a request put *)
(* on the channel's FIFO endpoint; the actor (accept_shared_session) takes *)
(* the requests one at a time, in the order they were put, and takes the   *)
(* next one only after the client's release_shared_session has met its own *)
(* detach_shared_session.  async_acquire_shared_session puts the request   *)
(* on the endpoint before it returns and runs the rest as a spawned task.  *)
(***************************************************************************)
EXTENDS Naturals, Sequences, FiniteSets

\* ------------------------------------------------------------------ bounds

\* send_canvas_message calls made on the CanvasSession
MaxSubmit == 3
\* get_shared_channel rounds made by the direct user of the channel
MaxGets == 1
\* length of the command list compared in the single/batched equivalence
MaxLen == 3
\* concurrent draw_image_in_other calls
NumTransfers == 2
\* concurrent clients each making one selection from the menu
NumClients == 2
\* creation requests made to the session factory
NumCreates == 2
\* calls made by script on the OffscreenCanvas
MaxCalls == 3

\* ------------------------------------------------------- program constants

\* time::sleep(Duration::from_millis(10))
FlushDelayMs == 10

\* the width of usize, in bits, on the 64-bit targets the actor is built for
UsizeBits == 64

\* ------------------------------------------------------------------ values

Canvases == {"A", "B"}

\* the canvas the CanvasSession's shared_channel leads to
SessionCanvas == "A"

\* CanvasMessage values: tag, geometry argument, style, Option<ByteBuf>
Msg(tag, arg, style, data) ==
  [tag |-> tag, arg |-> arg, style |-> style, data |-> data]

\* one call made on the CanvasData
Call(fn, arg, data) == [fn |-> fn, arg |-> arg, data |-> data]

\* the value a query on the CanvasData returns: determined by the surface state
Obs(q, arg, surface) == [q |-> q, arg |-> arg, of |-> surface]

\* a byte buffer made by a caller
Bytes(name) == Obs("bytes", name, <<>>)

\* CanvasData::get_transform after the calls cv: the matrix of the last
\* set_transform since the surface was made or recreated, else the identity
\* (save and restore are not among the commands drawn here)
RECURSIVE TransformOf(_)
TransformOf(cv) ==
  IF Len(cv) = 0
    THEN "identity"
    ELSE LET last == cv[Len(cv)]
         IN  CASE last.fn = "set_transform" -> last.arg
               [] last.fn = "recreate" -> "identity"
               [] OTHER -> TransformOf(SubSeq(cv, 1, Len(cv) - 1))

\* the CanvasData calls that set drawing state and leave the pixels alone
StateCalls == { "set_transform", "set_fill_style", "set_stroke_style" }

\* the geometry draw_image_in_other gives its DrawImage command: the image
\* is source_rect.size large and goes to dest_rect
DrawGeometry == "source_rect.size, dest_rect, source_rect, smoothing"

\* the rectangle a draw_image call with geometry `arg` draws to
DrawDest(arg) == IF arg = DrawGeometry THEN "dest_rect" ELSE arg

\* CanvasData::read_pixels(rect, ..) after the calls cv: the bytes last
\* written at rect by put_image_data, or drawn there by draw_image on a
\* blank surface, if nothing has drawn since; the cleared surface if nothing
\* has drawn since it was made or recreated; else what the rasterizer left
RECURSIVE ReadPixels(_, _)
ReadPixels(cv, rect) ==
  IF Len(cv) = 0
    THEN << Obs("cleared", rect, <<>>) >>
    ELSE LET last == cv[Len(cv)]
             rest == SubSeq(cv, 1, Len(cv) - 1)
         IN  CASE last.fn = "put_image_data" /\ last.arg = rect -> last.data
               [] last.fn = "draw_image" /\ DrawDest(last.arg) = rect /\ Len(rest) = 0 ->
                    IF last.data[1].q = "read_pixels"
                      THEN ReadPixels(last.data[1].of, last.data[1].arg)
                      ELSE last.data
               [] last.fn = "recreate" -> << Obs("cleared", rect, <<>>) >>
               [] last.fn \in StateCalls -> ReadPixels(rest, rect)
               [] OTHER -> << Obs("raster", rect, cv) >>

\* the commands the callers draw from
CmdSet ==
  { Msg("FillRect", "r1", "red", <<>>),
    Msg("SetTransform", "m1", "", <<>>) }

\* the labels of CanvasOps
Labels ==
  { "Message", "Messages", "GetTransform", "GetImageData", "PutImageData",
    "IsPointInPath", "FromLayout", "FromScript" }

\* labels whose sub-protocol starts with ReceiveValue
InputLabels ==
  { "Message", "Messages", "GetImageData", "PutImageData", "IsPointInPath" }

\* CanvasOps with an IsPointInPath that ends after its ReceiveValue
ReplyLabelsNoHitTest ==
  { "GetTransform", "GetImageData", "FromLayout", "FromScript" }

\* labels whose sub-protocol has a SendValue
ReplyLabels ==
  { "GetTransform", "GetImageData", "IsPointInPath", "FromLayout", "FromScript" }

\* the value carried by one send_value_to
Payload(msgs, arg, data) == [msgs |-> msgs, arg |-> arg, data |-> data]

VARIABLES
  canvas,          \* canvas[c]: the CanvasData of actor c, as its call sequence
  actor,           \* actor[c]: where run_canvas_session of c stands
  queue,           \* queue[c]: acquisition requests on c's shared channel
  inbox,           \* inbox[c]: value sent to the actor, not yet received
  outbox,          \* outbox[c]: value sent by the actor, not yet received
  tasks,           \* the client tasks, by task id
  message_buffer,  \* CanvasSession.message_buffer
  timers,          \* the spawned delayed flush tasks that have not run yet
  spawned,         \* number of delayed flush tasks spawned so far
  submitted,       \* history: the commands passed to send_canvas_message
  offscreen        \* the OffscreenCanvas of the script thread, where there is one

vars ==
  << canvas, actor, queue, inbox, outbox, tasks, message_buffer, timers,
     spawned, submitted, offscreen >>


\* ------------------------------------------------------- the canvas actor

\* the CanvasData method a one-call CanvasMessage arm invokes
MethodOf(tag) ==
  CASE tag = "FillText" -> "fill_text"
    [] tag = "FillRect" -> "fill_rect"
    [] tag = "StrokeRect" -> "stroke_rect"
    [] tag = "ClearRect" -> "clear_rect"
    [] tag = "BeginPath" -> "begin_path"
    [] tag = "ClosePath" -> "close_path"
    [] tag = "Fill" -> "fill"
    [] tag = "Stroke" -> "stroke"
    [] tag = "Clip" -> "clip"
    [] tag = "DrawImage" -> "draw_image"
    [] tag = "MoveTo" -> "move_to"
    [] tag = "LineTo" -> "line_to"
    [] tag = "Rect" -> "rect"
    [] tag = "QuadraticCurveTo" -> "quadratic_curve_to"
    [] tag = "BezierCurveTo" -> "bezier_curve_to"
    [] tag = "Arc" -> "arc"
    [] tag = "ArcTo" -> "arc_to"
    [] tag = "Ellipse" -> "ellipse"
    [] tag = "RestoreContext" -> "restore_context_state"
    [] tag = "SaveContext" -> "save_context_state"
    [] tag = "SetLineWidth" -> "set_line_width"
    [] tag = "SetLineCap" -> "set_line_cap"
    [] tag = "SetLineJoin" -> "set_line_join"
    [] tag = "SetMiterLimit" -> "set_miter_limit"
    [] tag = "SetTransform" -> "set_transform"
    [] tag = "SetGlobalAlpha" -> "set_global_alpha"
    [] tag = "SetGlobalComposition" -> "set_global_composition"
    [] tag = "SetShadowOffsetX" -> "set_shadow_offset_x"
    [] tag = "SetShadowOffsetY" -> "set_shadow_offset_y"
    [] tag = "SetShadowBlur" -> "set_shadow_blur"
    [] tag = "SetShadowColor" -> "set_shadow_color"
    [] tag = "SetFont" -> "set_font"
    [] tag = "SetTextAlign" -> "set_text_align"
    [] tag = "SetTextBaseline" -> "set_text_baseline"
    [] tag = "Recreate" -> "recreate"

\* image_size.width as usize and image_size.height as usize for the image
\* sizes drawn here, which are powers of two, as their base-2 logarithms
ImageSizeLog2(arg) ==
  CASE arg = "2^4 x 2^4" -> [width |-> 4, height |-> 4]
    [] arg = "2^31 x 2^30" -> [width |-> 31, height |-> 30]
    [] arg = "2^32 x 2^32" -> [width |-> 32, height |-> 32]
    [] OTHER -> [width |-> 0, height |-> 0]

\* the image sizes a DrawImage without image data is given
ImageSizes == { "2^4 x 2^4", "2^31 x 2^30", "2^32 x 2^32" }

\* the base-2 logarithm of width * height * 4 as a number, before it is
\* held in a usize
BufferLenLog2(arg) == ImageSizeLog2(arg).width + ImageSizeLog2(arg).height + 2

\* width * height * 4 does not fit a usize: a build with overflow checks
\* panics at the multiplication, a build without them goes on with the
\* product modulo 2^UsizeBits, which is 0 for these sizes
Overflows(arg) == BufferLenLog2(arg) >= UsizeBits

\* width * height * 4 fits a usize and is more than isize::MAX: vec![0; n]
\* panics with a capacity overflow in every build
ExceedsCapacity(arg) == ~Overflows(arg) /\ BufferLenLog2(arg) >= UsizeBits - 1

\* the length of the buffer vec![0; ..] makes for image size `arg`, by name:
\* width * height * 4 of `arg`, or 0 where the product wrapped
ZeroLen(arg) == IF Overflows(arg) THEN "0" ELSE arg

\* vec![0; image_size.width * image_size.height * 4]
ZeroBytes(size) == Obs("zeros", size, <<>>)

\* handle_canvas_message on m panics in some build
MayPanic(m) ==
  /\ m.tag = "DrawImage"
  /\ Len(m.data) = 0
  /\ (Overflows(m.arg) \/ ExceedsCapacity(m.arg))

\* handle_canvas_message on m panics in every build
MustPanic(m) ==
  /\ m.tag = "DrawImage"
  /\ Len(m.data) = 0
  /\ ExceedsCapacity(m.arg)

\* handle_canvas_message whose Recreate arm leaves the CanvasData as it is
HandleCanvasMessageNoRecreate(cv, m) ==
  CASE m.tag \in {"FillText", "FillRect", "Fill"} ->
         cv \o << Call("set_fill_style", m.style, <<>>),
                  Call(MethodOf(m.tag), m.arg, <<>>) >>
    [] m.tag \in {"StrokeRect", "Stroke"} ->
         cv \o << Call("set_stroke_style", m.style, <<>>),
                  Call(MethodOf(m.tag), m.arg, <<>>) >>
    [] m.tag = "DrawImage" ->
         LET data == IF Len(m.data) = 0 THEN << ZeroBytes(ZeroLen(m.arg)) >> ELSE m.data
         IN  Append(cv, Call("draw_image", m.arg, data))
    [] m.tag = "Recreate" -> cv
    [] OTHER ->
         Append(cv, Call(MethodOf(m.tag), m.arg, <<>>))

\* handle_canvas_message: the calls one CanvasMessage makes on the CanvasData
HandleCanvasMessage(cv, m) ==
  CASE m.tag \in {"FillText", "FillRect", "Fill"} ->
         cv \o << Call("set_fill_style", m.style, <<>>),
                  Call(MethodOf(m.tag), m.arg, <<>>) >>
    [] m.tag \in {"StrokeRect", "Stroke"} ->
         cv \o << Call("set_stroke_style", m.style, <<>>),
                  Call(MethodOf(m.tag), m.arg, <<>>) >>
    [] m.tag = "DrawImage" ->
         LET data == IF Len(m.data) = 0 THEN << ZeroBytes(ZeroLen(m.arg)) >> ELSE m.data
         IN  Append(cv, Call("draw_image", m.arg, data))
    [] OTHER ->
         Append(cv, Call(MethodOf(m.tag), m.arg, <<>>))

\* the loop of the Messages arm, with the commands taken last first
RECURSIVE ForEachMessageReversed(_, _)
ForEachMessageReversed(cv, messages) ==
  IF Len(messages) = 0
    THEN cv
    ELSE ForEachMessageReversed(
           HandleCanvasMessage(cv, messages[Len(messages)]),
           SubSeq(messages, 1, Len(messages) - 1))

\* for message in messages { handle_canvas_message(&mut canvas, message) }
RECURSIVE ForEachMessage(_, _)
ForEachMessage(cv, messages) ==
  IF Len(messages) = 0
    THEN cv
    ELSE ForEachMessage(HandleCanvasMessage(cv, Head(messages)), Tail(messages))

\* the actor waiting in accept_shared_session, serving nobody, no menu offered
Accepting ==
  [pc |-> "accept", label |-> "", client |-> <<>>, reply |-> <<>>, menu |-> {}]

\* an offer_choice! without the FromScript arm
OfferChoiceWithoutFromScript == Labels \ {"FromScript"}

\* the arms of the offer_choice! of run_canvas_session
OfferChoice == Labels

\* an arm that ends the actor after its detach, surface dropped
AfterDetachTerminated(label) ==
  IF label = "FromScript" THEN [Accepting EXCEPT !.pc = "terminated"] ELSE Accepting

\* detach_shared_session(run_canvas_session(canvas)), the end of every arm:
\* the actor is back in accept_shared_session
AfterDetach(label) == Accepting

\* History: the number of selections of menu clients granted so far
Served == Cardinality({ u \in 1 .. Len(tasks) : tasks[u].turn # 0 })

\* the PutImageData arm receiving its value without writing it
SurfaceAfterReceiveDropsPut(label, cv, val) ==
  CASE label = "Message" -> HandleCanvasMessage(cv, val.msgs[1])
    [] label = "Messages" -> ForEachMessage(cv, val.msgs)
    [] OTHER -> cv

\* a GetImageData arm that clears the rectangle it has read
SurfaceAfterReceiveReadClears(label, cv, val) ==
  CASE label = "Message" -> HandleCanvasMessage(cv, val.msgs[1])
    [] label = "Messages" -> ForEachMessage(cv, val.msgs)
    [] label = "PutImageData" -> Append(cv, Call("put_image_data", val.arg, val.data))
    [] label = "GetImageData" -> Append(cv, Call("clear_rect", val.arg, <<>>))
    [] OTHER -> cv

\* the CanvasData after the receive_value closure of `label` has run on `val`
SurfaceAfterReceive(label, cv, val) ==
  CASE label = "Message" -> HandleCanvasMessage(cv, val.msgs[1])
    [] label = "Messages" -> ForEachMessage(cv, val.msgs)
    [] label = "PutImageData" -> Append(cv, Call("put_image_data", val.arg, val.data))
    [] OTHER -> cv

\* whether the receive_value closure of `label` may end in a panic on `val`
\* (TRUE) and whether it may run to its end (FALSE)
PanicOutcomes(label, val) ==
  LET ms == IF label \in {"Message", "Messages"} THEN val.msgs ELSE <<>>
  IN  { b \in BOOLEAN :
          IF b THEN \E i \in 1 .. Len(ms) : MayPanic(ms[i])
               ELSE \A i \in 1 .. Len(ms) : ~MustPanic(ms[i]) }

\* the value the receive_value closure of `label` computes for its send_value
ReplyAfterReceive(label, cv, val) ==
  CASE label = "GetImageData" -> << Obs("read_pixels", val.arg, cv) >>
    [] label = "IsPointInPath" -> << Obs("is_point_in_path_bool", val.arg, cv) >>
    [] OTHER -> <<>>

\* the value an arm without input computes for its send_value
ReplyWithoutInput(label, cv) ==
  CASE label = "GetTransform" -> << Obs("get_transform", "", cv) >>
    [] label = "FromLayout" -> << Obs("get_data", "", cv) >>
    [] label = "FromScript" -> << Obs("get_pixels", "", cv) >>
    [] OTHER -> <<>>

\* accept_shared_session granting the channel while the last client still holds it
AcceptWithoutDetach(c) ==
  /\ actor[c].pc \in {"accept", "detach"}
  /\ Len(queue[c]) > 0
  /\ LET t == Head(queue[c])
     IN  /\ actor' = [actor EXCEPT ![c] = [Accepting EXCEPT !.pc = "offer", !.client = << t >>,
                                                            !.menu = OfferChoice]]
         /\ queue' = [queue EXCEPT ![c] = Tail(@)]
         /\ tasks' = [tasks EXCEPT ![t].held = @ \cup {c}, ![t].ip = @ + 1,
                                   ![t].turn = IF tasks[t].kind = "menu" THEN Served + 1 ELSE @]
  /\ UNCHANGED << canvas, inbox, outbox, message_buffer, timers, spawned, submitted, offscreen >>

\* accept_shared_session: the actor takes the oldest acquisition request and
\* offers the menu to that client.  History: the turn of a menu client
AcceptSharedSession(c) ==
  /\ actor[c].pc = "accept"
  /\ Len(queue[c]) > 0
  /\ LET t == Head(queue[c])
     IN  /\ actor' = [actor EXCEPT ![c] = [Accepting EXCEPT !.pc = "offer", !.client = << t >>,
                                                            !.menu = OfferChoice]]
         /\ queue' = [queue EXCEPT ![c] = Tail(@)]
         /\ tasks' = [tasks EXCEPT ![t].held = @ \cup {c}, ![t].ip = @ + 1,
                                   ![t].turn = IF tasks[t].kind = "menu" THEN Served + 1 ELSE @]
  /\ UNCHANGED << canvas, inbox, outbox, message_buffer, timers, spawned, submitted, offscreen >>

\* receive_value of the chosen arm: the closure runs on the received value;
\* a panic in it ends the actor's task before the detach, and canvas[c]
\* keeps the calls made up to this selection
ReceiveValue(c) ==
  /\ actor[c].pc = "receive"
  /\ Len(inbox[c]) > 0
  /\ LET val == inbox[c][1].val
         label == actor[c].label
         reply == ReplyAfterReceive(label, canvas[c], val)
     IN  \E panics \in PanicOutcomes(label, val) :
           IF panics
             THEN /\ canvas' = canvas
                  /\ actor' = [actor EXCEPT ![c].pc = "panicked"]
             ELSE /\ canvas' = [canvas EXCEPT ![c] = SurfaceAfterReceive(label, @, val)]
                  /\ actor' = [actor EXCEPT ![c].pc = IF label \in ReplyLabels THEN "send" ELSE "detach",
                                            ![c].reply = reply]
  /\ inbox' = [inbox EXCEPT ![c] = <<>>]
  /\ UNCHANGED << queue, outbox, tasks, message_buffer, timers, spawned, submitted, offscreen >>

\* send_value of the chosen arm
SendValue(c) ==
  /\ actor[c].pc = "send"
  /\ Len(outbox[c]) = 0
  /\ LET label == actor[c].label
         reply == IF label \in InputLabels
                    THEN actor[c].reply
                    ELSE ReplyWithoutInput(label, canvas[c])
     IN  outbox' = [outbox EXCEPT ![c] = reply]
  /\ actor' = [actor EXCEPT ![c].pc = "detach", ![c].reply = <<>>]
  /\ UNCHANGED << canvas, queue, inbox, tasks, message_buffer, timers, spawned, submitted, offscreen >>


\* ------------------------------------------------------------ the clients

\* one step of a client's session: the operation, the channel it is on
\* ("source" or "target" of the task) and, for choose!, the label
Ins(op, on, label) == [op |-> op, on |-> on, label |-> label]

\* a client task: its steps, the next step, its channels, what it sends, what
\* it has received, the channels it has acquired and not released.  History:
\* `seen`, how many commands had been submitted at its last get_shared_channel;
\* `by`, for a batch, the delayed flush task that sent it (none: sent by
\* get_shared_channel); `turn`, for a menu client, the position of its
\* selection among the selections of menu clients
Task(kind, prog, ip, source, target, msgs) ==
  [kind |-> kind, prog |-> prog, ip |-> ip, source |-> source, target |-> target,
   msgs |-> msgs, got |-> <<>>, held |-> {}, seen |-> 0, by |-> <<>>, turn |-> 0]

TaskIds == 1 .. Len(tasks)

Finished(t) == tasks[t].ip > Len(tasks[t].prog)

\* the step task t is at
Cur(t) == tasks[t].prog[tasks[t].ip]

\* the canvas whose channel the step of task t is on; for a client of the
\* factory the target is the channel the factory replied with
ChanOf(t) ==
  IF Cur(t).on = "source"
    THEN tasks[t].source
    ELSE IF tasks[t].kind = "creator" THEN tasks[t].got[1].arg ELSE tasks[t].target

\* send_canvas_messages: async_acquire_shared_session, choose!(Messages),
\* send_value_to(messages), release_shared_session
SendCanvasMessagesProg ==
  << Ins("acquire", "target", ""),
     Ins("choose", "target", "Messages"),
     Ins("send", "target", ""),
     Ins("release", "target", "") >>

\* draw_image_in_other acquiring the target before it releases the source
DrawImageInOtherNested ==
  << Ins("acquire", "source", ""),
     Ins("choose", "source", "GetImageData"),
     Ins("send", "source", ""),
     Ins("receive", "source", ""),
     Ins("acquire", "target", ""),
     Ins("release", "source", ""),
     Ins("choose", "target", "Message"),
     Ins("send", "target", ""),
     Ins("release", "target", "") >>

\* draw_image_in_other using the source's channel once more after releasing it
DrawImageInOtherUseAfterRelease ==
  << Ins("acquire", "source", ""),
     Ins("choose", "source", "GetImageData"),
     Ins("send", "source", ""),
     Ins("release", "source", ""),
     Ins("receive", "source", ""),
     Ins("acquire", "target", ""),
     Ins("choose", "target", "Message"),
     Ins("send", "target", ""),
     Ins("release", "target", "") >>

\* draw_image_in_other: the steps of its session, in the order of the code
DrawImageInOtherProg ==
  << Ins("acquire", "source", ""),
     Ins("choose", "source", "GetImageData"),
     Ins("send", "source", ""),
     Ins("receive", "source", ""),
     Ins("release", "source", ""),
     Ins("acquire", "target", ""),
     Ins("choose", "target", "Message"),
     Ins("send", "target", ""),
     Ins("release", "target", "") >>

\* a caller of get_shared_channel using the channel directly, as
\* OffscreenCanvas::fetch_all_data does: acquire, choose!(FromScript),
\* receive the bytes, release
DirectRound ==
  << Ins("get_shared_channel", "target", ""),
     Ins("acquire", "target", ""),
     Ins("choose", "target", "FromScript"),
     Ins("receive", "target", ""),
     Ins("release", "target", "") >>

RECURSIVE DirectProg(_)
DirectProg(n) == IF n = 0 THEN <<>> ELSE DirectRound \o DirectProg(n - 1)

\* a client issuing one Message selection: acquire, choose!(Message),
\* send_value_to(message), release
SingleRound ==
  << Ins("acquire", "target", ""),
     Ins("choose", "target", "Message"),
     Ins("send", "target", ""),
     Ins("release", "target", "") >>

RECURSIVE SinglesProg(_)
SinglesProg(n) == IF n = 0 THEN <<>> ELSE SingleRound \o SinglesProg(n - 1)

\* a client making one selection of `label`: between acquire and release,
\* the steps CanvasOps declares for the label, from the client's side
MenuRound(label) ==
  << Ins("acquire", "target", ""), Ins("choose", "target", label) >>
    \o (IF label \in InputLabels THEN << Ins("send", "target", "") >> ELSE <<>>)
    \o (IF label \in ReplyLabels THEN << Ins("receive", "target", "") >> ELSE <<>>)
    \o << Ins("release", "target", "") >>

\* the values a client may send after selecting `label`
MenuValues(label) ==
  CASE label = "Message" ->
         { Payload(<< Msg("SetTransform", "m1", "", <<>>) >>, "", <<>>),
           Payload(<< Msg("Recreate", "s1", "", <<>>) >>, "", <<>>) }
    [] label = "Messages" ->
         { Payload(<< Msg("SetTransform", "m1", "", <<>>),
                      Msg("Recreate", "s1", "", <<>>) >>, "", <<>>) }
    [] label = "GetImageData" ->
         { Payload(<<>>, "r1", <<>>), Payload(<<>>, "r2", <<>>) }
    [] label = "PutImageData" ->
         { Payload(<<>>, "r1", << Bytes("b1") >>) }
    [] label = "IsPointInPath" ->
         { Payload(<<>>, "p1", <<>>) }
    [] OTHER -> { Payload(<<>>, "", <<>>) }

\* a client selecting `label` on canvas c and sending `val` if the label
\* takes a value
MenuTask(c, label, val) ==
  Task("menu", MenuRound(label), 1, c, c,
       IF label \in InputLabels THEN << val >> ELSE <<>>)

\* draw_image_in_other sending its DrawImage without the bytes it received
SendPayloadWithoutBytes(t) ==
  LET task == tasks[t] IN
  CASE task.kind = "batch" -> Payload(task.msgs, "", <<>>)
    [] task.kind = "single" ->
         Payload(<< task.msgs[((task.ip - 1) \div Len(SingleRound)) + 1] >>, "", <<>>)
    [] task.kind = "menu" -> task.msgs[1]
    [] task.kind = "creator" ->
         IF Cur(t).on = "source" THEN task.msgs[1] ELSE task.msgs[2]
    [] task.kind = "transfer" ->
         IF Cur(t).on = "source"
           THEN Payload(<<>>, "source_rect", <<>>)
           ELSE Payload(<< Msg("DrawImage", DrawGeometry, "", <<>>) >>, "", <<>>)
    [] OTHER -> Payload(<<>>, "", <<>>)

\* the value task t sends at its send_value_to step; draw_image_in_other
\* sends (source_rect, image_size) to the source and, to the target, the
\* DrawImage with the bytes it received
SendPayload(t) ==
  LET task == tasks[t] IN
  CASE task.kind = "batch" -> Payload(task.msgs, "", <<>>)
    [] task.kind = "single" ->
         Payload(<< task.msgs[((task.ip - 1) \div Len(SingleRound)) + 1] >>, "", <<>>)
    [] task.kind = "menu" -> task.msgs[1]
    [] task.kind = "creator" ->
         IF Cur(t).on = "source" THEN task.msgs[1] ELSE task.msgs[2]
    [] task.kind = "transfer" ->
         IF Cur(t).on = "source"
           THEN Payload(<<>>, "source_rect", <<>>)
           ELSE Payload(<< Msg("DrawImage", DrawGeometry, "", task.got) >>, "", <<>>)
    [] OTHER -> Payload(<<>>, "", <<>>)

\* whether task t has a request waiting on the endpoint of canvas c
Requested(t, c) == \E i \in 1 .. Len(queue[c]) : queue[c][i] = t

\* acquire_shared_session: the request goes on the channel's endpoint; the
\* task goes on when accept_shared_session has taken the request
AcquireSharedSession(t) ==
  /\ ~Finished(t)
  /\ Cur(t).op = "acquire"
  /\ ~Requested(t, ChanOf(t))
  /\ queue' = [queue EXCEPT ![ChanOf(t)] = Append(@, t)]
  /\ UNCHANGED << canvas, actor, inbox, outbox, tasks, message_buffer, timers, spawned, submitted, offscreen >>

\* choose!(chan, Label, ...): the client selects an arm of the offered menu
Choose(t) ==
  /\ ~Finished(t)
  /\ Cur(t).op = "choose"
  /\ LET c == ChanOf(t)
     IN  /\ c \in tasks[t].held
         /\ actor[c].pc = "offer"
         /\ actor[c].client = << t >>
         /\ Cur(t).label \in actor[c].menu
         /\ actor' = [actor EXCEPT ![c].label = Cur(t).label,
                                   ![c].pc = IF Cur(t).label \in InputLabels
                                               THEN "receive" ELSE "send"]
  /\ tasks' = [tasks EXCEPT ![t].ip = @ + 1]
  /\ UNCHANGED << canvas, queue, inbox, outbox, message_buffer, timers, spawned, submitted, offscreen >>

\* send_value_to(chan, value, ...)
SendValueTo(t) ==
  /\ ~Finished(t)
  /\ Cur(t).op = "send"
  /\ LET c == ChanOf(t)
     IN  /\ c \in tasks[t].held
         /\ Len(inbox[c]) = 0
         /\ inbox' = [inbox EXCEPT ![c] = << [from |-> t, val |-> SendPayload(t)] >>]
  /\ tasks' = [tasks EXCEPT ![t].ip = @ + 1]
  /\ UNCHANGED << canvas, actor, queue, outbox, message_buffer, timers, spawned, submitted, offscreen >>

\* receive_value_from(chan, ...)
ReceiveValueFrom(t) ==
  /\ ~Finished(t)
  /\ Cur(t).op = "receive"
  /\ LET c == ChanOf(t)
     IN  /\ c \in tasks[t].held
         /\ Len(outbox[c]) > 0
         /\ tasks' = [tasks EXCEPT ![t].ip = @ + 1, ![t].got = outbox[c]]
         /\ outbox' = [outbox EXCEPT ![c] = <<>>]
  /\ UNCHANGED << canvas, actor, queue, inbox, message_buffer, timers, spawned, submitted, offscreen >>

\* release_shared_session meeting the actor's detach_shared_session: the
\* client gives the channel up and the actor goes back to accept_shared_session
ReleaseSharedSession(t) ==
  /\ ~Finished(t)
  /\ Cur(t).op = "release"
  /\ LET c == ChanOf(t)
     IN  /\ c \in tasks[t].held
         /\ actor[c].pc = "detach"
         /\ actor[c].client = << t >>
         /\ actor' = [actor EXCEPT ![c] = AfterDetach(actor[c].label)]
         /\ tasks' = [tasks EXCEPT ![t].ip = @ + 1, ![t].held = @ \ {c}]
  /\ UNCHANGED << canvas, queue, inbox, outbox, message_buffer, timers, spawned, submitted, offscreen >>


\* ----------------------------------------------------- the session factory

\* the actor started by create_canvas_session
Factory == "factory"

\* the names given to the channels run_shared_session makes, in order
CanvasNames == << "A", "B", "C", "D" >>

\* the canvases the factory can be asked for
FactoryCanvases == { CanvasNames[i] : i \in 1 .. NumCreates }

\* a canvas for which no actor has been started
NoActor == [Accepting EXCEPT !.pc = "none"]

\* the (size, antialias) values a creation request may carry
CreateParams ==
  { Payload(<<>>, "s1", << Obs("true", "", <<>>) >>),
    Payload(<<>>, "s2", << Obs("false", "", <<>>) >>) }

\* if antialias { AntialiasMode::Default } else { AntialiasMode::None }
AntialiasModeOf(antialias) ==
  IF antialias = "true" THEN "AntialiasMode::Default" ELSE "AntialiasMode::None"

\* CanvasData::new(size, .., antialias_mode, ..)
CanvasDataNew(size, antialias_mode) ==
  << Call("new", size, << Obs(antialias_mode, "", <<>>) >>) >>

\* a SharedChannel<CanvasProtocol> as a value
Channel(c) == Obs("channel", c, <<>>)

\* a client of the factory: acquire, send (size, antialias), receive the
\* channel, release; then one Message selection on the channel received
CreateProg ==
  << Ins("acquire", "source", ""),
     Ins("send", "source", ""),
     Ins("receive", "source", ""),
     Ins("release", "source", "") >> \o SingleRound

\* the canvases that have no actor yet, by their place in CanvasNames
Unused == { i \in 1 .. NumCreates : actor[CanvasNames[i]].pc = "none" }

\* run_shared_session: the channel made next
NewChannel == CanvasNames[CHOOSE i \in Unused : \A j \in Unused : i <= j]

\* the factory starting a canvas actor as soon as it takes a request
FactoryAcceptStartsActor ==
  /\ actor[Factory].pc = "accept"
  /\ Len(queue[Factory]) > 0
  /\ LET t == Head(queue[Factory])
     IN  /\ actor' = [actor EXCEPT ![Factory] = [Accepting EXCEPT !.pc = "receive",
                                                                  !.client = << t >>],
                                   ![NewChannel] = Accepting]
         /\ queue' = [queue EXCEPT ![Factory] = Tail(@)]
         /\ tasks' = [tasks EXCEPT ![t].held = @ \cup {Factory}, ![t].ip = @ + 1]
  /\ UNCHANGED << canvas, inbox, outbox, message_buffer, timers, spawned, submitted, offscreen >>

\* accept_shared_session of run_create_canvas_session: the factory takes the
\* oldest acquisition request and waits for the parameters
FactoryAccept ==
  /\ actor[Factory].pc = "accept"
  /\ Len(queue[Factory]) > 0
  /\ LET t == Head(queue[Factory])
     IN  /\ actor' = [actor EXCEPT ![Factory] = [Accepting EXCEPT !.pc = "receive",
                                                                  !.client = << t >>]]
         /\ queue' = [queue EXCEPT ![Factory] = Tail(@)]
         /\ tasks' = [tasks EXCEPT ![t].held = @ \cup {Factory}, ![t].ip = @ + 1]
  /\ UNCHANGED << canvas, inbox, outbox, message_buffer, timers, spawned, submitted, offscreen >>

\* the factory making the canvas anew under the channel it made first, and
\* replying with that channel to every request
FactoryReceiveReusesChannel ==
  /\ actor[Factory].pc = "receive"
  /\ Len(inbox[Factory]) > 0
  /\ LET val == inbox[Factory][1].val
         c == CanvasNames[1]
     IN  /\ canvas' = [canvas EXCEPT ![c] = CanvasDataNew(val.arg, AntialiasModeOf(val.data[1].q))]
         /\ actor' = [actor EXCEPT ![c] = Accepting,
                                   ![Factory].pc = "send",
                                   ![Factory].reply = << Channel(c) >>]
  /\ inbox' = [inbox EXCEPT ![Factory] = <<>>]
  /\ UNCHANGED << queue, outbox, tasks, message_buffer, timers, spawned, submitted, offscreen >>

\* the receive_value closure of run_create_canvas_session: CanvasData::new
\* with the parameters received, run_shared_session(run_canvas_session(canvas))
\* starting the new actor in its accept_shared_session, and the channel to
\* it kept for the send_value
FactoryReceive ==
  /\ actor[Factory].pc = "receive"
  /\ Len(inbox[Factory]) > 0
  /\ Unused # {}
  /\ LET val == inbox[Factory][1].val
         c == NewChannel
     IN  /\ canvas' = [canvas EXCEPT ![c] = CanvasDataNew(val.arg, AntialiasModeOf(val.data[1].q))]
         /\ actor' = [actor EXCEPT ![c] = Accepting,
                                   ![Factory].pc = "send",
                                   ![Factory].reply = << Channel(c) >>]
  /\ inbox' = [inbox EXCEPT ![Factory] = <<>>]
  /\ UNCHANGED << queue, outbox, tasks, message_buffer, timers, spawned, submitted, offscreen >>

\* send_value(session, detach_shared_session(run_create_canvas_session(ctx)))
FactorySend ==
  /\ actor[Factory].pc = "send"
  /\ Len(outbox[Factory]) = 0
  /\ outbox' = [outbox EXCEPT ![Factory] = actor[Factory].reply]
  /\ actor' = [actor EXCEPT ![Factory].pc = "detach", ![Factory].reply = <<>>]
  /\ UNCHANGED << canvas, queue, inbox, tasks, message_buffer, timers, spawned, submitted, offscreen >>


\* ------------------------------------------------------ the CanvasSession

\* a split_off that returns a copy of the elements from `at` on and leaves
\* the vector whole
SplitOffCopies(v, at) == [kept |-> v, off |-> SubSeq(v, at + 1, Len(v))]

\* Vec::split_off(at): the vector keeps [0, at) and the elements from `at` on
\* are returned
SplitOff(v, at) == [kept |-> SubSeq(v, 1, at), off |-> SubSeq(v, at + 1, Len(v))]

\* send_canvas_messages whose acquisition request is made by the spawned task
SendCanvasMessagesLazily(c, messages, by) ==
  [tasks |-> Append(tasks, [Task("batch", SendCanvasMessagesProg, 1, c, c, messages)
                              EXCEPT !.by = by]),
   queue |-> queue]

\* send_canvas_messages: async_acquire_shared_session puts the acquisition
\* request on the channel and spawns the task that sends the batch
SendCanvasMessages(c, messages, by) ==
  [tasks |-> Append(tasks, [Task("batch", SendCanvasMessagesProg, 1, c, c, messages)
                              EXCEPT !.by = by]),
   queue |-> [queue EXCEPT ![c] = Append(@, Len(tasks) + 1)]]

\* flush_messages that sends the buffer whether or not it is empty
FlushMessagesAlways(by) ==
  LET parts == SplitOff(message_buffer, 0)
      sent == SendCanvasMessages(SessionCanvas, parts.off, by)
  IN  [buffer |-> parts.kept, tasks |-> sent.tasks, queue |-> sent.queue]

\* flush_messages, under the lock of message_buffer: what it leaves in the
\* buffer, in the task list and on the channel
FlushMessages(by) ==
  IF Len(message_buffer) # 0
    THEN LET parts == SplitOff(message_buffer, 0)
             sent == SendCanvasMessages(SessionCanvas, parts.off, by)
         IN  [buffer |-> parts.kept, tasks |-> sent.tasks, queue |-> sent.queue]
    ELSE [buffer |-> message_buffer, tasks |-> tasks, queue |-> queue]

\* a delayed flush task: sleeps FlushDelayMs, then calls flush_messages
Timer(id) == [id |-> id, delay |-> FlushDelayMs]

\* send_canvas_message spawning a delayed flush at every call
SendCanvasMessageAlwaysSpawn(m) ==
  /\ Len(submitted) < MaxSubmit
  /\ message_buffer' = Append(message_buffer, m)
  /\ timers' = timers \cup {Timer(spawned + 1)}
  /\ spawned' = spawned + 1
  /\ submitted' = Append(submitted, [msg |-> m, window |-> spawned'])
  /\ UNCHANGED << canvas, actor, queue, inbox, outbox, tasks, offscreen >>

\* send_canvas_message putting the command at the front of the buffer
SendCanvasMessageInFront(m) ==
  /\ Len(submitted) < MaxSubmit
  /\ LET was_empty == Len(message_buffer) = 0
     IN  /\ message_buffer' = << m >> \o message_buffer
         /\ timers' = IF was_empty THEN timers \cup {Timer(spawned + 1)} ELSE timers
         /\ spawned' = IF was_empty THEN spawned + 1 ELSE spawned
  /\ submitted' = Append(submitted, [msg |-> m, window |-> spawned'])
  /\ UNCHANGED << canvas, actor, queue, inbox, outbox, tasks, offscreen >>

\* send_canvas_message waiting for a lock that a delayed flush task keeps
\* while it sleeps
SendCanvasMessageLockedOut(m) ==
  /\ timers = {}
  /\ Len(submitted) < MaxSubmit
  /\ LET was_empty == Len(message_buffer) = 0
     IN  /\ message_buffer' = Append(message_buffer, m)
         /\ timers' = IF was_empty THEN timers \cup {Timer(spawned + 1)} ELSE timers
         /\ spawned' = IF was_empty THEN spawned + 1 ELSE spawned
  /\ submitted' = Append(submitted, [msg |-> m, window |-> spawned'])
  /\ UNCHANGED << canvas, actor, queue, inbox, outbox, tasks, offscreen >>

\* send_canvas_message spawning a delayed flush for the first command of the
\* session only
SendCanvasMessageSpawnsOnce(m) ==
  /\ Len(submitted) < MaxSubmit
  /\ LET was_empty == Len(message_buffer) = 0 /\ spawned = 0
     IN  /\ message_buffer' = Append(message_buffer, m)
         /\ timers' = IF was_empty THEN timers \cup {Timer(spawned + 1)} ELSE timers
         /\ spawned' = IF was_empty THEN spawned + 1 ELSE spawned
  /\ submitted' = Append(submitted, [msg |-> m, window |-> spawned'])
  /\ UNCHANGED << canvas, actor, queue, inbox, outbox, tasks, offscreen >>

\* send_canvas_message, under the lock of message_buffer.  History: the
\* command is logged with the latest delayed flush task spawned
SendCanvasMessage(m) ==
  /\ Len(submitted) < MaxSubmit
  /\ LET was_empty == Len(message_buffer) = 0
     IN  /\ message_buffer' = Append(message_buffer, m)
         /\ timers' = IF was_empty THEN timers \cup {Timer(spawned + 1)} ELSE timers
         /\ spawned' = IF was_empty THEN spawned + 1 ELSE spawned
  /\ submitted' = Append(submitted, [msg |-> m, window |-> spawned'])
  /\ UNCHANGED << canvas, actor, queue, inbox, outbox, tasks, offscreen >>

\* the delayed flush task spawned by send_canvas_message: its sleep is over
\* and it runs cloned.flush_messages()
TimerFlush(tm) ==
  /\ tm \in timers
  /\ LET r == FlushMessages(<< tm.id >>)
     IN  /\ message_buffer' = r.buffer
         /\ tasks' = r.tasks
         /\ queue' = r.queue
  /\ timers' = timers \ {tm}
  /\ UNCHANGED << canvas, actor, inbox, outbox, spawned, submitted, offscreen >>

\* get_shared_channel returning the channel without flushing
GetSharedChannelNoFlush(t) ==
  /\ ~Finished(t)
  /\ Cur(t).op = "get_shared_channel"
  /\ tasks' = [tasks EXCEPT ![t].ip = @ + 1, ![t].seen = Len(submitted)]
  /\ UNCHANGED << canvas, actor, queue, inbox, outbox, message_buffer, timers, spawned, submitted, offscreen >>

\* get_shared_channel: flush_messages, then the channel is handed out
GetSharedChannel(t) ==
  /\ ~Finished(t)
  /\ Cur(t).op = "get_shared_channel"
  /\ LET r == FlushMessages(<<>>)
     IN  /\ message_buffer' = r.buffer
         /\ tasks' = [r.tasks EXCEPT ![t].ip = @ + 1, ![t].seen = Len(submitted)]
         /\ queue' = r.queue
  /\ UNCHANGED << canvas, actor, inbox, outbox, timers, spawned, submitted, offscreen >>

\* ----------------------------------------------------- the OffscreenCanvas

\* a u64 as two 32-bit halves: the value is hi * 2^32 + lo
Dim(hi, lo) == [hi |-> hi, lo |-> lo]

\* the widths and heights script gives: 0, 1, 2 and 2^32
Dims == { Dim(0, 0), Dim(0, 1), Dim(0, 2), Dim(1, 0) }

\* the context ids script asks for
ContextIds == { "2d", "webgl" }

\* value != 0 negated: the u64 is zero
IsZero(d) == d.hi = 0 /\ d.lo = 0

\* a Size2D
Size(width, height) == [width |-> width, height |-> height]

\* History: the call script made last, and the number of session tasks
\* there were when it was made
Called(op, id, value) == [op |-> op, id |-> id, value |-> value, tasks |-> Len(tasks)]

\* what a call returned: None, Some(..), true, false, nothing yet (a call
\* that has not returned) or a panic; for GetContext the context, for
\* fetch_all_data the Option of bytes and the Size2D<u32>
Ret(tag, ctx, data, size) == [tag |-> tag, ctx |-> ctx, data |-> data, size |-> size]

\* OffscreenCanvas::new_inherited: width and height as given, no context.
\* History: `created`, the contexts made so far; `notified`, the sizes
\* passed to set_canvas_bitmap_dimensions; `calls`, `last` and `ret`, the
\* calls made, the last of them and what it returned
NewInherited(width, height) ==
  [width |-> width, height |-> height, context |-> <<>>, pc |-> "idle",
   created |-> 0, notified |-> <<>>, calls |-> 0,
   last |-> Called("Constructor", "", Dim(0, 0)),
   ret |-> Ret("Some", <<>>, <<>>, <<>>)]

\* get_size: Size2D::new(self.Width(), self.Height())
GetSize(oc) == Size(oc.width, oc.height)

\* NumCast::from(u64) for u32: the value if it is below 2^32, else None
NumCastU32(d) == IF d.hi = 0 THEN << d.lo >> ELSE <<>>

\* Size2D::to_u32, which is try_cast().unwrap(): the size in u32 where both
\* lengths fit, the empty sequence where the unwrap panics
ToU32(size) ==
  IF Len(NumCastU32(size.width)) = 1 /\ Len(NumCastU32(size.height)) = 1
    THEN << Size(NumCastU32(size.width)[1], NumCastU32(size.height)[1]) >>
    ELSE <<>>

\* get_or_init_2d_context making a new context at every call
GetOrInit2dContextAlwaysNew(oc) ==
  [oc |-> [oc EXCEPT !.context = << oc.created + 1 >>, !.created = @ + 1],
   ret |-> << oc.created + 1 >>]

\* get_or_init_2d_context: the stored context if there is one, else a new
\* OffscreenCanvasRenderingContext2D, which is stored
GetOrInit2dContext(oc) ==
  IF Len(oc.context) > 0
    THEN [oc |-> oc, ret |-> oc.context]
    ELSE [oc |-> [oc EXCEPT !.context = << oc.created + 1 >>, !.created = @ + 1],
          ret |-> << oc.created + 1 >>]

\* GetContext(id): get_or_init_2d_context for "2d", None for any other id
GetContext(id) ==
  /\ offscreen.pc = "idle"
  /\ offscreen.calls < MaxCalls
  /\ LET r == IF id = "2d"
                THEN GetOrInit2dContext(offscreen)
                ELSE [oc |-> offscreen, ret |-> <<>>]
     IN  offscreen' =
           [r.oc EXCEPT !.calls = @ + 1,
                        !.last = Called("GetContext", id, Dim(0, 0)),
                        !.ret = Ret(IF Len(r.ret) > 0 THEN "Some" ELSE "None", r.ret, <<>>, <<>>)]
  /\ UNCHANGED << canvas, actor, queue, inbox, outbox, tasks, message_buffer, timers,
                  spawned, submitted >>

\* the context told of a new size: set_canvas_bitmap_dimensions(size)
SetCanvasBitmapDimensions(oc, size) ==
  IF Len(oc.context) > 0 THEN [oc EXCEPT !.notified = Append(@, size)] ELSE oc

\* SetWidth telling the context the size the canvas had before the call
SetWidthStaleSize(value) ==
  /\ offscreen.pc = "idle"
  /\ offscreen.calls < MaxCalls
  /\ LET stale == SetCanvasBitmapDimensions(offscreen, GetSize(offscreen))
         set == [stale EXCEPT !.width = value]
     IN  offscreen' =
           [set EXCEPT !.calls = @ + 1,
                       !.last = Called("SetWidth", "", value),
                       !.ret = Ret("unit", <<>>, <<>>, <<>>)]
  /\ UNCHANGED << canvas, actor, queue, inbox, outbox, tasks, message_buffer, timers,
                  spawned, submitted >>

\* SetWidth(value): the width is set, then the context, if there is one, is
\* told the size the canvas has now
SetWidth(value) ==
  /\ offscreen.pc = "idle"
  /\ offscreen.calls < MaxCalls
  /\ LET set == [offscreen EXCEPT !.width = value]
         told == SetCanvasBitmapDimensions(set, GetSize(set))
     IN  offscreen' =
           [told EXCEPT !.calls = @ + 1,
                        !.last = Called("SetWidth", "", value),
                        !.ret = Ret("unit", <<>>, <<>>, <<>>)]
  /\ UNCHANGED << canvas, actor, queue, inbox, outbox, tasks, message_buffer, timers,
                  spawned, submitted >>

\* SetHeight(value): the height is set, then the context, if there is one,
\* is told the size the canvas has now
SetHeight(value) ==
  /\ offscreen.pc = "idle"
  /\ offscreen.calls < MaxCalls
  /\ LET set == [offscreen EXCEPT !.height = value]
         told == SetCanvasBitmapDimensions(set, GetSize(set))
     IN  offscreen' =
           [told EXCEPT !.calls = @ + 1,
                        !.last = Called("SetHeight", "", value),
                        !.ret = Ret("unit", <<>>, <<>>, <<>>)]
  /\ UNCHANGED << canvas, actor, queue, inbox, outbox, tasks, message_buffer, timers,
                  spawned, submitted >>

\* self.Width() != 0 && self.Height() != 0
IsValid(oc) == ~IsZero(oc.width) /\ ~IsZero(oc.height)

\* a call of is_valid
IsValidCall ==
  /\ offscreen.pc = "idle"
  /\ offscreen.calls < MaxCalls
  /\ offscreen' =
       [offscreen EXCEPT !.calls = @ + 1,
                         !.last = Called("is_valid", "", Dim(0, 0)),
                         !.ret = Ret(IF IsValid(offscreen) THEN "true" ELSE "false",
                                     <<>>, <<>>, <<>>)]
  /\ UNCHANGED << canvas, actor, queue, inbox, outbox, tasks, message_buffer, timers,
                  spawned, submitted >>

\* the end of fetch_all_data, Some((data, size.to_u32())): the value
\* returned where the size fits u32, a panic of the script thread where the
\* unwrap in to_u32 fails
ReturnSome(oc, data) ==
  IF Len(ToU32(GetSize(oc))) = 1
    THEN [oc EXCEPT !.pc = "idle", !.ret = Ret("Some", <<>>, data, ToU32(GetSize(oc)))]
    ELSE [oc EXCEPT !.pc = "panicked", !.ret = Ret("panic", <<>>, <<>>, <<>>)]

\* IpcSharedMemory::from_bytes(&data), as a value
FromBytes(data) == Obs("IpcSharedMemory", "", data)

\* fetch_all_data up to the point where it blocks: None for a size with a
\* zero length; without a context, Some((None, size.to_u32())); with one,
\* the session on the context's channel is started and the script thread
\* blocks on it
FetchAllData ==
  /\ offscreen.pc = "idle"
  /\ offscreen.calls < MaxCalls
  /\ LET called == [offscreen EXCEPT !.calls = @ + 1,
                                     !.last = Called("fetch_all_data", "", Dim(0, 0)),
                                     !.ret = Ret("pending", <<>>, <<>>, <<>>)]
         size == GetSize(offscreen)
     IN  IF IsZero(size.width) \/ IsZero(size.height)
           THEN /\ offscreen' = [called EXCEPT !.ret = Ret("None", <<>>, <<>>, <<>>)]
                /\ tasks' = tasks
           ELSE IF Len(offscreen.context) = 0
             THEN /\ offscreen' = ReturnSome(called, <<>>)
                  /\ tasks' = tasks
             ELSE /\ offscreen' = [called EXCEPT !.pc = "fetching"]
                  /\ tasks' = Append(tasks, Task("direct", DirectRound, 1,
                                                 SessionCanvas, SessionCanvas, <<>>))
  /\ UNCHANGED << canvas, actor, queue, inbox, outbox, message_buffer, timers,
                  spawned, submitted >>

\* fetch_all_data after task::block_on: the session has ended with the bytes
\* received, and Some((Some(IpcSharedMemory::from_bytes(&data)), size.to_u32()))
\* is returned
FetchAllDataReturn ==
  /\ offscreen.pc = "fetching"
  /\ Len(tasks) > 0
  /\ Finished(Len(tasks))
  /\ offscreen' = ReturnSome(offscreen, << FromBytes(tasks[Len(tasks)].got) >>)
  /\ UNCHANGED << canvas, actor, queue, inbox, outbox, tasks, message_buffer, timers,
                  spawned, submitted >>

\* --------------------------------------------------------- specifications

Idle == [c \in Canvases |-> Accepting]

\* no OffscreenCanvas has been constructed
NoOffscreen == <<>>

NoValues == [c \in Canvases |-> <<>>]

\* one CanvasSession on a new canvas, and one direct user of its channel
Init ==
  /\ canvas = [c \in Canvases |-> <<>>]
  /\ actor = Idle
  /\ queue = NoValues
  /\ inbox = NoValues
  /\ outbox = NoValues
  /\ tasks = << Task("direct", DirectProg(MaxGets), 1, SessionCanvas, SessionCanvas, <<>>) >>
  /\ message_buffer = <<>>
  /\ timers = {}
  /\ spawned = 0
  /\ submitted = <<>>
  /\ offscreen = NoOffscreen

Next ==
  \/ \E m \in CmdSet : SendCanvasMessage(m)
  \/ \E tm \in timers : TimerFlush(tm)
  \/ \E t \in TaskIds : GetSharedChannel(t)
  \/ \E t \in TaskIds : AcquireSharedSession(t)
  \/ \E t \in TaskIds : Choose(t)
  \/ \E t \in TaskIds : SendValueTo(t)
  \/ \E t \in TaskIds : ReceiveValueFrom(t)
  \/ \E t \in TaskIds : ReleaseSharedSession(t)
  \/ \E c \in Canvases : AcceptSharedSession(c)
  \/ \E c \in Canvases : ReceiveValue(c)
  \/ \E c \in Canvases : SendValue(c)

Spec == Init /\ [][Next]_vars

\* a caller of get_shared_channel that keeps the channel for later
RECURSIVE GetOnlyProg(_)
GetOnlyProg(n) ==
  IF n = 0 THEN <<>> ELSE << Ins("get_shared_channel", "target", "") >> \o GetOnlyProg(n - 1)

\* one CanvasSession on a new canvas, and one caller of get_shared_channel
InitLive ==
  /\ canvas = [c \in Canvases |-> <<>>]
  /\ actor = Idle
  /\ queue = NoValues
  /\ inbox = NoValues
  /\ outbox = NoValues
  /\ tasks = << Task("direct", GetOnlyProg(MaxGets), 1, SessionCanvas, SessionCanvas, <<>>) >>
  /\ message_buffer = <<>>
  /\ timers = {}
  /\ spawned = 0
  /\ submitted = <<>>
  /\ offscreen = NoOffscreen

\* the steps that are taken without a further call on the CanvasSession: a
\* delayed flush task, spawned on the runtime, ends its sleep and runs; a
\* spawned session task, whose acquisition request is on the channel since
\* the flush, goes on with its session; the actor serves
Scheduled ==
  \/ \E tm \in timers : TimerFlush(tm)
  \/ \E t \in TaskIds : Choose(t)
  \/ \E t \in TaskIds : SendValueTo(t)
  \/ \E t \in TaskIds : ReleaseSharedSession(t)
  \/ \E c \in Canvases : AcceptSharedSession(c)
  \/ \E c \in Canvases : ReceiveValue(c)

NextLive ==
  \/ \E m \in CmdSet : SendCanvasMessage(m)
  \/ \E t \in TaskIds : GetSharedChannel(t)
  \/ Scheduled

\* the runtime is fair to spawned tasks, timers and actors; nothing obliges
\* anybody to call send_canvas_message or get_shared_channel
SpecLive == InitLive /\ [][NextLive]_vars /\ WF_vars(Scheduled)

\* the surfaces a canvas may hold before a transfer or a comparison starts
StartSurfaces ==
  { <<>>, HandleCanvasMessage(<<>>, Msg("FillRect", "r0", "red", <<>>)) }

\* canvas A with a rectangle drawn on it, canvas B blank
DrawnAndBlank ==
  [c \in Canvases |->
     IF c = "A" THEN HandleCanvasMessage(<<>>, Msg("FillRect", "r0", "red", <<>>)) ELSE <<>>]

\* NumTransfers concurrent draw_image_in_other calls between the two
\* canvases, in any directions
InitTransfer ==
  /\ canvas = DrawnAndBlank
  /\ actor = Idle
  /\ queue = NoValues
  /\ inbox = NoValues
  /\ outbox = NoValues
  /\ tasks \in [1 .. NumTransfers ->
                  { Task("transfer", DrawImageInOtherProg, 1, s, d, <<>>) :
                      s \in Canvases, d \in Canvases }]
  /\ message_buffer = <<>>
  /\ timers = {}
  /\ spawned = 0
  /\ submitted = <<>>
  /\ offscreen = NoOffscreen

NextTransfer ==
  \/ \E t \in TaskIds : AcquireSharedSession(t)
  \/ \E t \in TaskIds : Choose(t)
  \/ \E t \in TaskIds : SendValueTo(t)
  \/ \E t \in TaskIds : ReceiveValueFrom(t)
  \/ \E t \in TaskIds : ReleaseSharedSession(t)
  \/ \E c \in Canvases : AcceptSharedSession(c)
  \/ \E c \in Canvases : ReceiveValue(c)
  \/ \E c \in Canvases : SendValue(c)

\* the tasks and the actors are scheduled fairly: a step that stays possible
\* is taken
SpecTransfer == InitTransfer /\ [][NextTransfer]_vars /\ WF_vars(NextTransfer)

\* the commands of the compared lists
BatchCmdSet == CmdSet \cup { Msg("Recreate", "s1", "", <<>>) }

\* a list of commands sent to canvas A as single Message selections and to
\* canvas B as one Messages selection, both canvases starting alike
InitBatch ==
  /\ \E start \in StartSurfaces : canvas = [c \in Canvases |-> start]
  /\ actor = Idle
  /\ queue = NoValues
  /\ inbox = NoValues
  /\ outbox = NoValues
  /\ \E n \in 0 .. MaxLen : \E ms \in [1 .. n -> BatchCmdSet] :
       tasks = << Task("single", SinglesProg(n), 1, "A", "A", ms),
                  Task("batch", SendCanvasMessagesProg, 1, "B", "B", ms) >>
  /\ message_buffer = <<>>
  /\ timers = {}
  /\ spawned = 0
  /\ submitted = <<>>
  /\ offscreen = NoOffscreen

NextBatch ==
  \/ \E t \in TaskIds : AcquireSharedSession(t)
  \/ \E t \in TaskIds : Choose(t)
  \/ \E t \in TaskIds : SendValueTo(t)
  \/ \E t \in TaskIds : ReleaseSharedSession(t)
  \/ \E c \in Canvases : AcceptSharedSession(c)
  \/ \E c \in Canvases : ReceiveValue(c)

SpecBatch == InitBatch /\ [][NextBatch]_vars

\* the surface of a canvas that has served commands before: a transform
\* other than the identity is set and a rectangle is drawn
UsedSurface ==
  ForEachMessage(<<>>, << Msg("SetTransform", "m2", "", <<>>),
                         Msg("FillRect", "r1", "red", <<>>) >>)

MenuClients == 1 .. NumClients

\* NumClients clients of the session's canvas, each making one selection of
\* any label with any of its values, at the same time
InitMenu ==
  /\ canvas = [c \in Canvases |-> UsedSurface]
  /\ actor = Idle
  /\ queue = NoValues
  /\ inbox = NoValues
  /\ outbox = NoValues
  /\ tasks \in [MenuClients ->
                  UNION { { MenuTask(SessionCanvas, l, v) : v \in MenuValues(l) } :
                            l \in Labels }]
  /\ message_buffer = <<>>
  /\ timers = {}
  /\ spawned = 0
  /\ submitted = <<>>
  /\ offscreen = NoOffscreen

NextMenu ==
  \/ \E t \in TaskIds : AcquireSharedSession(t)
  \/ \E t \in TaskIds : Choose(t)
  \/ \E t \in TaskIds : SendValueTo(t)
  \/ \E t \in TaskIds : ReceiveValueFrom(t)
  \/ \E t \in TaskIds : ReleaseSharedSession(t)
  \/ \E c \in Canvases : AcceptSharedSession(c)
  \/ \E c \in Canvases : ReceiveValue(c)
  \/ \E c \in Canvases : SendValue(c)

\* the clients and the actor are scheduled fairly
SpecMenu == InitMenu /\ [][NextMenu]_vars /\ WF_vars(NextMenu)

\* the command a client sends first to the canvas it was given
FirstCmds ==
  { Payload(<< Msg("FillRect", "r1", "red", <<>>) >>, "", <<>>) }

Creators == 1 .. NumCreates

\* create_canvas_session has run: the factory waits in accept_shared_session
\* and no canvas actor exists; NumCreates clients are about to ask for a canvas
InitFactory ==
  /\ canvas = [c \in FactoryCanvases \cup {Factory} |-> <<>>]
  /\ actor = [c \in FactoryCanvases \cup {Factory} |->
                IF c = Factory THEN Accepting ELSE NoActor]
  /\ queue = [c \in FactoryCanvases \cup {Factory} |-> <<>>]
  /\ inbox = [c \in FactoryCanvases \cup {Factory} |-> <<>>]
  /\ outbox = [c \in FactoryCanvases \cup {Factory} |-> <<>>]
  /\ tasks \in [Creators ->
                  { Task("creator", CreateProg, 1, Factory, Factory, << p, m >>) :
                      p \in CreateParams, m \in FirstCmds }]
  /\ message_buffer = <<>>
  /\ timers = {}
  /\ spawned = 0
  /\ submitted = <<>>
  /\ offscreen = NoOffscreen

NextFactory ==
  \/ \E t \in TaskIds : AcquireSharedSession(t)
  \/ \E t \in TaskIds : Choose(t)
  \/ \E t \in TaskIds : SendValueTo(t)
  \/ \E t \in TaskIds : ReceiveValueFrom(t)
  \/ \E t \in TaskIds : ReleaseSharedSession(t)
  \/ FactoryAccept
  \/ FactoryReceive
  \/ FactorySend
  \/ \E c \in FactoryCanvases : AcceptSharedSession(c)
  \/ \E c \in FactoryCanvases : ReceiveValue(c)

\* the clients, the factory and the canvas actors are scheduled fairly
SpecFactory == InitFactory /\ [][NextFactory]_vars /\ WF_vars(NextFactory)

\* the three clients of the canvas channels at once: send_canvas_messages
\* has just been called with two commands for the session's canvas (its
\* request is on the channel), a draw_image_in_other between any two
\* canvases starts, and a caller of fetch_all_data starts
InitClients ==
  /\ canvas = DrawnAndBlank
  /\ actor = Idle
  /\ queue = [NoValues EXCEPT ![SessionCanvas] = << 1 >>]
  /\ inbox = NoValues
  /\ outbox = NoValues
  /\ \E s \in Canvases : \E d \in Canvases :
       tasks = << Task("batch", SendCanvasMessagesProg, 1, SessionCanvas, SessionCanvas,
                       << Msg("SetTransform", "m1", "", <<>>),
                          Msg("FillRect", "r1", "red", <<>>) >>),
                  Task("transfer", DrawImageInOtherProg, 1, s, d, <<>>),
                  Task("direct", DirectProg(MaxGets), 1, SessionCanvas, SessionCanvas, <<>>) >>
  /\ message_buffer = <<>>
  /\ timers = {}
  /\ spawned = 0
  /\ submitted = <<>>
  /\ offscreen = NoOffscreen

NextClients ==
  \/ \E t \in TaskIds : GetSharedChannel(t)
  \/ \E t \in TaskIds : AcquireSharedSession(t)
  \/ \E t \in TaskIds : Choose(t)
  \/ \E t \in TaskIds : SendValueTo(t)
  \/ \E t \in TaskIds : ReceiveValueFrom(t)
  \/ \E t \in TaskIds : ReleaseSharedSession(t)
  \/ \E c \in Canvases : AcceptSharedSession(c)
  \/ \E c \in Canvases : ReceiveValue(c)
  \/ \E c \in Canvases : SendValue(c)

SpecClients == InitClients /\ [][NextClients]_vars

\* the same clients with no assumption on scheduling: a client may stop for
\* good at any step
SpecStall == InitMenu /\ [][NextMenu]_vars

\* a Message carrying a DrawImage without image data
DrawEmpty(size) == Payload(<< Msg("DrawImage", size, "", <<>>) >>, "", <<>>)

\* the selections of the clients that draw images without data: a DrawImage
\* of each size alone, one after a FillRect in a batch, and a GetTransform
DrawTasks ==
  { MenuTask(SessionCanvas, "Message", DrawEmpty(size)) : size \in ImageSizes }
    \cup { MenuTask(SessionCanvas, "Messages",
                    Payload(<< Msg("FillRect", "r1", "red", <<>>),
                               Msg("DrawImage", "2^31 x 2^30", "", <<>>) >>, "", <<>>)),
           MenuTask(SessionCanvas, "GetTransform", Payload(<<>>, "", <<>>)) }

\* NumClients clients of the session's canvas, each making one selection
\* that draws an image without data or asks for the transform
InitDraw ==
  /\ canvas = [c \in Canvases |-> UsedSurface]
  /\ actor = Idle
  /\ queue = NoValues
  /\ inbox = NoValues
  /\ outbox = NoValues
  /\ tasks \in [MenuClients -> DrawTasks]
  /\ message_buffer = <<>>
  /\ timers = {}
  /\ spawned = 0
  /\ submitted = <<>>
  /\ offscreen = NoOffscreen

SpecDraw == InitDraw /\ [][NextMenu]_vars

\* an OffscreenCanvas constructed with any width and height, on which script
\* makes up to MaxCalls calls; the canvas actor its 2D context draws on has
\* served commands before
InitOffscreen ==
  /\ canvas = [c \in Canvases |-> UsedSurface]
  /\ actor = Idle
  /\ queue = NoValues
  /\ inbox = NoValues
  /\ outbox = NoValues
  /\ tasks = <<>>
  /\ message_buffer = <<>>
  /\ timers = {}
  /\ spawned = 0
  /\ submitted = <<>>
  /\ \E width \in Dims : \E height \in Dims : offscreen = NewInherited(width, height)

NextOffscreen ==
  \/ \E id \in ContextIds : GetContext(id)
  \/ \E value \in Dims : SetWidth(value)
  \/ \E value \in Dims : SetHeight(value)
  \/ IsValidCall
  \/ FetchAllData
  \/ FetchAllDataReturn
  \/ \E t \in TaskIds : GetSharedChannel(t)
  \/ \E t \in TaskIds : AcquireSharedSession(t)
  \/ \E t \in TaskIds : Choose(t)
  \/ \E t \in TaskIds : ReceiveValueFrom(t)
  \/ \E t \in TaskIds : ReleaseSharedSession(t)
  \/ \E c \in Canvases : AcceptSharedSession(c)
  \/ \E c \in Canvases : SendValue(c)

SpecOffscreen == InitOffscreen /\ [][NextOffscreen]_vars


\* ------------------------------------------------------------- the claims

\* the commands passed to send_canvas_message so far, in call order
SubmittedMsgs == [i \in 1 .. Len(submitted) |-> submitted[i].msg]

\* the surface that results from handling the commands one at a time, in order
RECURSIVE HandledInOrder(_)
HandledInOrder(ms) ==
  IF Len(ms) = 0
    THEN <<>>
    ELSE HandleCanvasMessage(HandledInOrder(SubSeq(ms, 1, Len(ms) - 1)), ms[Len(ms)])

\* the surface of the session's canvas holds exactly the first k submitted
\* commands, in the order of submission
AppliedPrefix(k) ==
  canvas[SessionCanvas] = HandledInOrder(SubSeq(SubmittedMsgs, 1, k))

BatchTasks == { t \in TaskIds : tasks[t].kind = "batch" }

DirectTasks == { t \in TaskIds : tasks[t].kind = "direct" }

TransferTasks == { t \in TaskIds : tasks[t].kind = "transfer" }

\* C1: when the list c1..cN has been sent to canvas A as N Message selections
\* and to canvas B as one Messages selection, the two surfaces, which started
\* alike, are alike (N from 0 to MaxLen, any start surface).
C1_SinglesEqualBatch ==
  (Finished(1) /\ Finished(2)) => canvas["A"] = canvas["B"]

\* C1 witness: a list of at least two commands, not all the same, has been
\* served both ways and has changed the surface.
C1_Witness ==
  /\ Finished(1) /\ Finished(2)
  /\ Len(tasks[1].msgs) >= 2
  /\ tasks[1].msgs[1] # tasks[1].msgs[2]
  /\ canvas["A"] = canvas["B"]
  /\ Len(canvas["B"]) >= 2

\* C2: the surface of the session's canvas is always the result of handling
\* a prefix of the submitted commands in submission order, and a batch is
\* taken by the actor only when every batch flushed before it is finished.
C2_AppliedInSubmitOrder ==
  /\ \E k \in 0 .. Len(submitted) : AppliedPrefix(k)
  /\ \A i \in BatchTasks : \A j \in BatchTasks :
       (i < j /\ tasks[j].ip > 1) => Finished(i)

\* C2 witness: two batches from two flushes have both been served and the
\* surface holds their commands, which differ, in submission order.
C2_Witness ==
  /\ Cardinality(BatchTasks) >= 2
  /\ \A t \in BatchTasks : Finished(t)
  /\ Len(submitted) >= 2
  /\ SubmittedMsgs[1] # SubmittedMsgs[2]
  /\ AppliedPrefix(Len(submitted))

\* C3: while the actor serves a caller that got the channel from
\* get_shared_channel, the surface holds every command submitted before that
\* get_shared_channel call, and the bytes the caller receives were read from
\* such a surface.
C3_DirectStepSeesPriorWrites ==
  \A t \in DirectTasks :
    /\ actor[SessionCanvas].client = << t >> =>
         \E k \in tasks[t].seen .. Len(submitted) : AppliedPrefix(k)
    /\ (~Finished(t) /\ Cur(t).op = "release") =>
         \E k \in tasks[t].seen .. Len(submitted) :
           tasks[t].got = << Obs("get_pixels", "", HandledInOrder(SubSeq(SubmittedMsgs, 1, k))) >>

\* C3 witness: the actor is about to reply to a direct FromScript selection
\* made after two commands had been submitted, and the surface holds them.
C3_Witness ==
  \E t \in DirectTasks :
    /\ actor[SessionCanvas].client = << t >>
    /\ actor[SessionCanvas].pc = "send"
    /\ tasks[t].seen >= 2
    /\ AppliedPrefix(tasks[t].seen)

\* the label of the selection task t has made on the channel it holds
ChosenBy(t) ==
  { tasks[t].prog[k].label :
      k \in { k \in 1 .. Len(tasks[t].prog) :
                k < tasks[t].ip /\ tasks[t].prog[k].op = "choose" } }

\* C4: a channel is held by at most one task; the actor of a held channel
\* serves its holder: the arm it runs is one the holder chose, and the value
\* it is to receive was sent by the holder.
C4_SelectionsDoNotInterleave ==
  \A c \in Canvases :
    /\ \A t \in TaskIds : \A u \in TaskIds :
         (c \in tasks[t].held /\ c \in tasks[u].held) => t = u
    /\ \A t \in TaskIds :
         c \in tasks[t].held => (actor[c].client = << t >> /\ actor[c].pc # "accept")
    /\ Len(inbox[c]) > 0 => actor[c].client = << inbox[c][1].from >>
    /\ actor[c].label # "" =>
         \E t \in TaskIds : actor[c].client = << t >> /\ actor[c].label \in ChosenBy(t)

\* C4 witness: two selections are issued at once: a batch is being received
\* by the actor while the direct caller's request waits on the same channel.
C4_Witness ==
  \E t \in BatchTasks : \E u \in DirectTasks :
    /\ SessionCanvas \in tasks[t].held
    /\ actor[SessionCanvas].pc = "receive"
    /\ Len(inbox[SessionCanvas]) > 0
    /\ Requested(u, SessionCanvas)

\* C5: a draw_image_in_other task holds at most one channel, never waits for
\* a channel while it holds one, and is on the target's part of its session
\* only with the source released and the source's bytes received.
C5_OneAcquisitionAtATime ==
  \A t \in TransferTasks :
    /\ Cardinality(tasks[t].held) <= 1
    /\ \A c \in Canvases : Requested(t, c) => tasks[t].held = {}
    /\ (~Finished(t) /\ Cur(t).on = "target") =>
         /\ Len(tasks[t].got) > 0
         /\ tasks[t].held \subseteq {tasks[t].target}
         /\ \/ tasks[t].source = tasks[t].target
            \/ actor[tasks[t].source].client # << t >>

\* C5 witness: a transfer between two different canvases holds the target,
\* with the source's bytes in hand, while the source's actor is free again.
C5_Witness ==
  \E t \in TransferTasks :
    /\ tasks[t].source # tasks[t].target
    /\ tasks[t].held = {tasks[t].target}
    /\ Len(tasks[t].got) > 0
    /\ actor[tasks[t].source].pc = "accept"


\* two transfers each holding a channel and waiting for the one the other holds
CircularWait ==
  \E t \in TransferTasks : \E u \in TransferTasks :
    \E c \in Canvases : \E d \in Canvases :
      /\ t # u /\ c # d
      /\ c \in tasks[t].held /\ Requested(t, d)
      /\ d \in tasks[u].held /\ Requested(u, c)

\* every transfer has run to its end and every channel is released
TransfersComplete ==
  /\ \A t \in TransferTasks : Finished(t) /\ tasks[t].held = {}
  /\ \A c \in Canvases : actor[c].pc = "accept" /\ Len(queue[c]) = 0

\* C6: concurrent transfers, in opposite directions among them, never reach a
\* state where each waits for a channel the other holds, and under fair
\* scheduling all of them complete with both channels released.
C6_OppositeTransfersComplete ==
  /\ [](~CircularWait)
  /\ <>TransfersComplete

\* C6 witness: two transfers in opposite directions each hold their own
\* source at the same time, the other's target.
C6_Witness ==
  \E t \in TransferTasks : \E u \in TransferTasks :
    /\ tasks[t].source # tasks[t].target
    /\ tasks[u].source = tasks[t].target
    /\ tasks[u].target = tasks[t].source
    /\ tasks[t].held = {tasks[t].source}
    /\ tasks[u].held = {tasks[u].source}


\* no get_shared_channel call has been made yet
NoGetYet == \A t \in DirectTasks : tasks[t].ip = 1

\* the commands submitted in the window of delayed flush task w: from the
\* send_canvas_message call that spawned it to the next spawn, in call order
WindowMsgs(w) ==
  LET InWindow(e) == e.window = w
      es == SelectSeq(submitted, InWindow)
  IN  [i \in 1 .. Len(es) |-> es[i].msg]

\* C7: with commands submitted by send_canvas_message only, each delayed
\* flush that has run produced exactly one Messages selection, carrying all
\* the commands submitted from its spawn to its run, in order; the commands
\* submitted after it ran wait for the next delayed flush, the only one
\* outstanding, and go into a separate selection.
C7_OneBatchPerWindow ==
  NoGetYet =>
    /\ Cardinality(timers) <= 1
    /\ \A t \in BatchTasks :
         \E w \in 1 .. spawned :
           /\ tasks[t].by = << w >>
           /\ Timer(w) \notin timers
           /\ tasks[t].msgs = WindowMsgs(w)
    /\ \A t \in BatchTasks : \A u \in BatchTasks :
         tasks[t].by = tasks[u].by => t = u
    /\ \A w \in 1 .. spawned :
         IF Timer(w) \in timers
           THEN message_buffer = WindowMsgs(w)
           ELSE \E t \in BatchTasks : tasks[t].by = << w >>

\* C7 witness: two commands were submitted within one delay and sent as one
\* selection, and a command submitted after that was sent as a second one.
C7_Witness ==
  /\ NoGetYet
  /\ \E t \in BatchTasks : \E u \in BatchTasks :
       /\ t < u
       /\ Len(tasks[t].msgs) = 2
       /\ tasks[t].msgs = SubSeq(SubmittedMsgs, 1, 2)
       /\ tasks[u].msgs = SubSeq(SubmittedMsgs, 3, 3)
       /\ Len(submitted) = 3

\* C8: at most one delayed flush task is spawned and not yet run.
C8_AtMostOneFlushOutstanding == Cardinality(timers) <= 1

\* a step in which flush_messages runs: a delayed flush task ends, or a
\* caller passes its get_shared_channel step
IsFlushStep ==
  \/ timers' # timers /\ spawned' = spawned
  \/ \E t \in DirectTasks :
       /\ ~Finished(t)
       /\ Cur(t).op = "get_shared_channel"
       /\ tasks'[t].ip = tasks[t].ip + 1

\* what a run of flush_messages leaves
FlushOutcome ==
  IF Len(message_buffer) > 0
    THEN /\ Len(tasks') = Len(tasks) + 1
         /\ LET b == tasks'[Len(tasks')]
            IN  /\ b.kind = "batch"
                /\ b.msgs = message_buffer
                /\ b.target = SessionCanvas
                /\ Cardinality({ k \in 1 .. Len(b.prog) : b.prog[k].op = "choose" }) = 1
                /\ \A k \in 1 .. Len(b.prog) :
                     b.prog[k].op = "choose" => b.prog[k].label = "Messages"
         /\ queue'[SessionCanvas] = Append(queue[SessionCanvas], Len(tasks'))
         /\ message_buffer' = <<>>
    ELSE /\ Len(tasks') = Len(tasks)
         /\ queue' = queue
         /\ message_buffer' = <<>>

\* C9: every run of flush_messages on a non-empty buffer issues exactly one
\* Messages selection carrying the whole buffer in order and leaves the
\* buffer empty; on an empty buffer it issues no selection and leaves the
\* buffer empty; and no other step issues a selection task.
C9_FlushTakesWholeBuffer ==
  [][ /\ IsFlushStep => FlushOutcome
      /\ Len(tasks') # Len(tasks) => IsFlushStep ]_vars

\* C9 witness: a flush has just sent a buffer of two commands or more: the
\* batch waits on the channel and the buffer is empty.
C9_Witness ==
  \E t \in BatchTasks :
    /\ Len(tasks[t].msgs) >= 2
    /\ Requested(t, SessionCanvas)
    /\ Len(message_buffer) = 0

\* C10: every send_canvas_message call appends its command at the end of the
\* buffer; it spawns one delayed flush task, of 10 ms, when the buffer was
\* empty before the append and none when it was not; it sends nothing itself.
C10_AppendAndSpawnIffEmpty ==
  [][ Len(submitted') = Len(submitted) + 1 =>
        /\ message_buffer' = Append(message_buffer, submitted'[Len(submitted')].msg)
        /\ Len(message_buffer) = 0 =>
             \E tm \in timers' :
               /\ tm \notin timers
               /\ timers' = timers \cup {tm}
               /\ tm.delay = 10
        /\ Len(message_buffer) > 0 => timers' = timers
        /\ tasks' = tasks /\ queue' = queue ]_vars

\* C10 witness: two commands wait in the buffer and the only delayed flush
\* task ever spawned is the one of the first append.
C10_Witness ==
  /\ Len(message_buffer) >= 2
  /\ Cardinality(timers) = 1
  /\ spawned = 1


\* the index in `submitted` of the send_canvas_message call that spawned
\* delayed flush task w
SpawningCall(w) ==
  CHOOSE i \in 1 .. Len(submitted) :
    /\ submitted[i].window = w
    /\ \A j \in 1 .. i - 1 : submitted[j].window # w

\* the number of commands flushes have taken out of the buffer so far
RECURSIVE SentCount(_)
SentCount(k) ==
  IF k = 0
    THEN 0
    ELSE SentCount(k - 1) + (IF tasks[k].kind = "batch" THEN Len(tasks[k].msgs) ELSE 0)

\* a step in which the delay of flush task tm ends and it runs flush_messages
DelayEnds(tm) == tm \in timers /\ tm \notin timers'

\* the batch the flush of this step sends carries the i-th submitted command
InBatchSentNow(i) ==
  /\ Len(tasks') = Len(tasks) + 1
  /\ LET b == tasks'[Len(tasks')]
         at == i - SentCount(Len(tasks))
     IN  /\ b.kind = "batch"
         /\ at \in 1 .. Len(b.msgs)
         /\ b.msgs[at] = submitted[i].msg
         /\ Len(b.msgs) = Len(submitted) - SentCount(Len(tasks))

\* the send_canvas_message calls made during the delay of flush task w, as
\* indices in `submitted`, at the step where the delay ends
DuringDelay(w) == (SpawningCall(w) + 1) .. Len(submitted)

\* C11 as stated: a send_canvas_message call can be made whenever a delayed
\* flush task is waiting, and when the delay of a flush task ends every
\* command submitted during that delay is in the batch its flush sends.
C11_SendsDuringDelayInItsBatch ==
  [][ /\ (timers # {} /\ Len(submitted) < MaxSubmit) =>
           ENABLED (\E m \in CmdSet : SendCanvasMessage(m))
      /\ \A tm \in timers :
           DelayEnds(tm) => \A i \in DuringDelay(tm.id) : InBatchSentNow(i) ]_vars

\* C11 amended: a send_canvas_message call can be made whenever a delayed
\* flush task is waiting, and when the delay of a flush task ends every
\* command submitted during that delay is in the batch its flush sends,
\* unless an earlier run of flush_messages (get_shared_channel, or a delayed
\* flush task spawned before) has sent it already.
C11_SendsDuringDelayAreBatched ==
  [][ /\ (timers # {} /\ Len(submitted) < MaxSubmit) =>
           ENABLED (\E m \in CmdSet : SendCanvasMessage(m))
      /\ \A tm \in timers :
           DelayEnds(tm) =>
             \A i \in DuringDelay(tm.id) :
               \/ i <= SentCount(Len(tasks))
               \/ InBatchSentNow(i) ]_vars

\* C11 witness: a delayed flush task has sent a batch whose second command
\* was submitted while that task was waiting out its delay.
C11_Witness ==
  \E t \in BatchTasks : \E w \in 1 .. spawned :
    /\ tasks[t].by = << w >>
    /\ Len(tasks[t].msgs) >= 2
    /\ SentCount(t - 1) + 1 = SpawningCall(w)


\* the menu clients
MenuTasks == { t \in TaskIds : tasks[t].kind = "menu" }

\* the label menu client t selects
LabelOf(t) == tasks[t].prog[2].label

\* menu client t has gone through the steps of its selection up to the release
Answered(t) == Finished(t) \/ Cur(t).op = "release"

\* the steps by which the actor of c stands again in accept_shared_session
\* after an arm: from its detach, with the surface it had, and never to an end
BackToAccept(c) ==
  /\ (actor[c].pc = "detach" /\ actor'[c] # actor[c]) =>
       /\ actor'[c].pc = "accept"
       /\ canvas'[c] = canvas[c]
  /\ actor'[c].pc = "offer" => actor'[c].menu = Labels
  /\ actor'[c].pc \in {"accept", "offer", "receive", "send", "detach"}

ServedNext(t, u) == tasks[t].turn # 0 /\ tasks[u].turn = tasks[t].turn + 1

\* C13: when a PutImageData selection writing bytes B at rectangle R is
\* followed on the same actor, with no selection in between, by a
\* GetImageData selection over R, the reply the client receives is one
\* read_pixels result over R whose bytes are exactly B.
C13_ReadAfterWrite ==
  \A t \in MenuTasks : \A u \in MenuTasks :
    ( /\ LabelOf(t) = "PutImageData"
      /\ LabelOf(u) = "GetImageData"
      /\ ServedNext(t, u)
      /\ tasks[u].msgs[1].arg = tasks[t].msgs[1].arg
      /\ Answered(u) ) =>
        /\ Len(tasks[u].got) = 1
        /\ tasks[u].got[1].q = "read_pixels"
        /\ tasks[u].got[1].arg = tasks[t].msgs[1].arg
        /\ ReadPixels(tasks[u].got[1].of, tasks[u].got[1].arg) = tasks[t].msgs[1].data

\* C13 witness: a client has received the reply of a GetImageData over r1
\* served right after another client's PutImageData of bytes b1 at r1.
C13_Witness ==
  \E t \in MenuTasks : \E u \in MenuTasks :
    /\ LabelOf(t) = "PutImageData"
    /\ LabelOf(u) = "GetImageData"
    /\ ServedNext(t, u)
    /\ tasks[t].msgs[1] = Payload(<<>>, "r1", << Bytes("b1") >>)
    /\ tasks[u].msgs[1] = Payload(<<>>, "r1", <<>>)
    /\ Answered(u)
    /\ Len(tasks[u].got) = 1


\* the last command of the Message or Messages selection of menu client t is
\* a Recreate
EndsWithRecreate(t) ==
  /\ LabelOf(t) \in {"Message", "Messages"}
  /\ LET ms == tasks[t].msgs[1].msgs IN ms[Len(ms)].tag = "Recreate"

\* C14: on a surface that has served commands before, a SetTransform with a
\* matrix other than the identity among them, when a selection whose last
\* command is Recreate(size) is followed, with no selection in between, by a
\* GetTransform selection, the reply the client receives is one get_transform
\* result and it is the identity.
C14_RecreateResetsTransform ==
  \A t \in MenuTasks : \A u \in MenuTasks :
    ( /\ EndsWithRecreate(t)
      /\ LabelOf(u) = "GetTransform"
      /\ ServedNext(t, u)
      /\ Answered(u) ) =>
        /\ Len(tasks[u].got) = 1
        /\ tasks[u].got[1].q = "get_transform"
        /\ TransformOf(tasks[u].got[1].of) = "identity"

\* C14 witness: the surface had transform m2, a batch set m1 and then
\* recreated the surface, and the next selection, a GetTransform, has had
\* its reply received.
C14_Witness ==
  \E t \in MenuTasks : \E u \in MenuTasks :
    /\ TransformOf(UsedSurface) = "m2"
    /\ LabelOf(t) = "Messages"
    /\ EndsWithRecreate(t)
    /\ tasks[t].msgs[1].msgs[1] = Msg("SetTransform", "m1", "", <<>>)
    /\ LabelOf(u) = "GetTransform"
    /\ ServedNext(t, u)
    /\ Answered(u)
    /\ Len(tasks[u].got) = 1


\* the shapes the claim gives the sub-protocols
OneValueNoReply == {"Message", "Messages", "PutImageData"}

NoInputOneReply == {"GetTransform", "FromLayout", "FromScript"}

OneValueOneReply == {"GetImageData", "IsPointInPath"}

\* what a step may do on the channel of canvas c: the actor goes from the
\* offer to the first step of the selected label, receives exactly one value
\* where the label has an input, sends exactly one reply where the label has
\* one, after the input if there is one, and detaches; the client sends its
\* one value only to an actor that waits for it, takes the reply after it
\* was sent, and its release ends the selection only when every value of
\* the label has been exchanged and received
StepsInDeclaredOrder(c) ==
  LET a == actor[c]
      b == actor'[c]
  IN  /\ (a.pc = "offer" /\ b # a) =>
           /\ b.label \in OneValueNoReply \cup NoInputOneReply \cup OneValueOneReply
           /\ b.pc = IF b.label \in NoInputOneReply THEN "send" ELSE "receive"
           /\ inbox'[c] = <<>> /\ outbox'[c] = <<>>
      /\ (a.pc = "receive" /\ b # a) =>
           /\ Len(inbox[c]) = 1 /\ inbox'[c] = <<>>
           /\ outbox'[c] = <<>>
           /\ b.label = a.label
           /\ b.pc = IF a.label \in OneValueNoReply THEN "detach" ELSE "send"
      /\ (a.pc = "send" /\ b # a) =>
           /\ a.label \notin OneValueNoReply
           /\ inbox'[c] = <<>>
           /\ outbox[c] = <<>> /\ Len(outbox'[c]) = 1
           /\ b.label = a.label
           /\ b.pc = "detach"
      /\ (a.pc = "detach" /\ b # a) =>
           /\ inbox[c] = <<>> /\ outbox[c] = <<>>
           /\ a.label \notin OneValueNoReply =>
                \E t \in TaskIds : a.client = << t >> /\ Len(tasks[t].got) = 1
           /\ b.pc = "accept"
      /\ inbox'[c] # inbox[c] =>
           \/ a.pc = "receive" /\ b # a
           \/ /\ a.pc = "receive" /\ b = a
              /\ a.label \notin NoInputOneReply
              /\ inbox[c] = <<>> /\ Len(inbox'[c]) = 1
              /\ a.client = << inbox'[c][1].from >>
      /\ outbox'[c] # outbox[c] =>
           \/ a.pc = "send" /\ b # a
           \/ /\ a.pc = "detach" /\ b = a
              /\ outbox'[c] = <<>>
              /\ \E t \in TaskIds : a.client = << t >> /\ tasks'[t].got = outbox[c]

\* C18: for every label the steps on a channel come in the declared order,
\* none skipped: one value and no reply for Message, Messages and
\* PutImageData; no value and one reply for GetTransform, FromLayout and
\* FromScript; one value then one reply for GetImageData and IsPointInPath;
\* a reply is sent only after the input was received and the client
\* releases only after it received the reply.
C18_StepsInDeclaredOrder ==
  [][ \A c \in Canvases : StepsInDeclaredOrder(c) ]_vars

\* C18 witness: the client of an IsPointInPath selection has sent its point
\* and received the reply, and is about to release.
C18_Witness ==
  \E t \in MenuTasks :
    /\ LabelOf(t) = "IsPointInPath"
    /\ Cur(t).op = "release"
    /\ actor[SessionCanvas].pc = "detach"
    /\ actor[SessionCanvas].client = << t >>
    /\ Len(tasks[t].got) = 1
    /\ tasks[t].got[1].q = "is_point_in_path_bool"


\* client t has acquired the channel of the session's canvas and not released it
Holds(t) == SessionCanvas \in tasks[t].held

\* client u has asked for the channel of the session's canvas and waits
Waits(u) == Requested(u, SessionCanvas)

\* C20: with no assumption on scheduling, from any state where a client
\* holds the channel and another waits for it, if the holder never releases
\* then the other waits forever: its request is never granted and never
\* given up.
C20_BlockedWhileNeverReleased ==
  \A t \in MenuClients : \A u \in MenuClients \ {t} :
    []((Holds(t) /\ Waits(u) /\ []Holds(t)) => []Waits(u))

\* C20 witness: a client has done every step of its selection but the
\* release, and another client's request waits on the channel.
C20_Witness ==
  \E t \in MenuTasks : \E u \in MenuTasks :
    /\ Holds(t)
    /\ Cur(t).op = "release"
    /\ actor[SessionCanvas].pc = "detach"
    /\ Waits(u)
    /\ tasks[u].held = {}


\* the canvas the k-th step of task t is on
ChanAt(t, k) ==
  IF tasks[t].prog[k].on = "source" THEN tasks[t].source ELSE tasks[t].target

\* how many steps `op` on the channel of canvas c task t has gone through
Passed(t, op, c) ==
  Cardinality({ k \in 1 .. Len(tasks[t].prog) :
                  /\ k < tasks[t].ip
                  /\ tasks[t].prog[k].op = op
                  /\ ChanAt(t, k) = c })

\* C19: a client whose next step is a choose, send, receive or release on a
\* channel holds that channel, acquired by itself and not yet released, and
\* is the one its actor serves; a client that has finished holds nothing;
\* for every channel its releases so far are its acquisitions so far, less
\* the one it holds now; and a client about to acquire a channel does not
\* hold it.
C19_StepsBetweenAcquireAndRelease ==
  \A t \in TaskIds :
    /\ (~Finished(t) /\ Cur(t).op \in {"choose", "send", "receive", "release"}) =>
         /\ ChanOf(t) \in tasks[t].held
         /\ actor[ChanOf(t)].client = << t >>
    /\ (~Finished(t) /\ Cur(t).op = "acquire") => ChanOf(t) \notin tasks[t].held
    /\ Finished(t) => tasks[t].held = {}
    /\ \A c \in Canvases :
         Passed(t, "acquire", c) =
           Passed(t, "release", c) + (IF c \in tasks[t].held THEN 1 ELSE 0)

\* C19 witness: send_canvas_messages, a draw_image_in_other between two
\* different canvases and a fetch_all_data caller have all run to their end,
\* with one release for the batch and two for the transfer, and hold nothing.
C19_Witness ==
  /\ \A t \in TaskIds : Finished(t) /\ tasks[t].held = {}
  /\ \E t \in BatchTasks : Passed(t, "release", tasks[t].target) = 1
  /\ \E t \in TransferTasks :
       /\ tasks[t].source # tasks[t].target
       /\ Passed(t, "release", tasks[t].source) = 1
       /\ Passed(t, "release", tasks[t].target) = 1
  /\ \E t \in DirectTasks : Passed(t, "release", tasks[t].target) >= 1


\* C15: when a draw_image_in_other from S to another canvas T has completed,
\* S replied to it with one read_pixels result over source_rect, and T has
\* been given a draw_image call carrying exactly that reply and the
\* geometry of the call; and if S holds its drawn content unchanged and T,
\* blank before, has been given nothing else, reading T over dest_rect
\* gives the bytes that reading S over source_rect gives.
C15_TransferCopiesPixels ==
  \A t \in TransferTasks :
    LET S == tasks[t].source
        T == tasks[t].target
    IN  (Finished(t) /\ S # T) =>
          /\ Len(tasks[t].got) = 1
          /\ tasks[t].got[1].q = "read_pixels"
          /\ tasks[t].got[1].arg = "source_rect"
          /\ \E k \in 1 .. Len(canvas[T]) :
               canvas[T][k] = Call("draw_image", DrawGeometry, tasks[t].got)
          /\ (canvas[S] = DrawnAndBlank[S] /\ Len(DrawnAndBlank[T]) = 0 /\ Len(canvas[T]) = 1) =>
               ReadPixels(canvas[T], "dest_rect") = ReadPixels(canvas[S], "source_rect")

\* C15 witness: a transfer from the drawn canvas A to the blank canvas B has
\* completed, B holds that one draw_image call, A is as it was, and reading
\* B over dest_rect gives what the rasterizer left in A's source_rect.
C15_Witness ==
  \E t \in TransferTasks :
    /\ Finished(t)
    /\ tasks[t].source = "A" /\ tasks[t].target = "B"
    /\ canvas["A"] = DrawnAndBlank["A"]
    /\ Len(canvas["B"]) = 1
    /\ ReadPixels(canvas["B"], "dest_rect") = << Obs("raster", "source_rect", DrawnAndBlank["A"]) >>


\* the canvases whose actor has been started
Existing == { c \in FactoryCanvases : actor[c].pc # "none" }

\* a step in which the factory's receive_value closure runs on a request
Creates == actor[Factory].pc = "receive" /\ actor'[Factory].pc = "send"

\* the channels the factory has replied with, or is about to
ChannelsMade ==
  { tasks[t].got[1].arg : t \in { t \in TaskIds : Len(tasks[t].got) = 1 } }
    \cup { outbox[Factory][i].arg : i \in 1 .. Len(outbox[Factory]) }
    \cup { actor[Factory].reply[i].arg : i \in 1 .. Len(actor[Factory].reply) }

\* what a creation step does: one actor that did not exist stands in
\* accept_shared_session on a surface of its own, made with the size of the
\* request; the reply kept for the client is the channel to it, which no
\* reply has named before; the other canvases are untouched
CreationStep ==
  Creates =>
    \E c \in FactoryCanvases :
      /\ c \notin Existing
      /\ c \notin ChannelsMade
      /\ actor'[c] = Accepting
      /\ Len(canvas'[c]) = 1
      /\ canvas'[c][1].fn = "new"
      /\ canvas'[c][1].arg = inbox[Factory][1].val.arg
      /\ actor'[Factory].reply = << Channel(c) >>
      /\ \A d \in FactoryCanvases \ {c} : actor'[d] = actor[d] /\ canvas'[d] = canvas[d]

\* the factory sends what the creation step kept, and after the client's
\* release it stands in accept_shared_session again; it is in no other state
FactoryLoops ==
  /\ (actor[Factory].pc = "send" /\ actor'[Factory] # actor[Factory]) =>
       outbox'[Factory] = actor[Factory].reply
  /\ (actor[Factory].pc = "detach" /\ actor'[Factory] # actor[Factory]) =>
       actor'[Factory].pc = "accept"
  /\ actor'[Factory].pc \in {"accept", "receive", "send", "detach"}

\* the channels received by different clients differ, and each leads to an
\* actor whose surface was made with the size that client asked for
RepliesDistinct ==
  \A t \in Creators :
    Len(tasks[t].got) = 1 =>
      /\ tasks[t].got[1].q = "channel"
      /\ tasks[t].got[1].arg \in Existing
      /\ canvas[tasks[t].got[1].arg][1] =
           Call("new", tasks[t].msgs[1].arg,
                << Obs(IF tasks[t].msgs[1].data[1].q = "true"
                         THEN "AntialiasMode::Default"
                         ELSE "AntialiasMode::None", "", <<>>) >>)
      /\ \A u \in Creators \ {t} : tasks[u].got # tasks[t].got

\* every creation request has been answered and the factory waits for more
AllCreated ==
  /\ \A t \in Creators : Len(tasks[t].got) = 1
  /\ actor[Factory].pc = "accept"

\* C16: every creation step of the factory takes the (size, antialias) of
\* the request, starts one new canvas actor on a new surface of that size
\* and replies with the channel to it, a channel no earlier reply named;
\* the channels clients hold differ and lead to the canvas they asked for;
\* after each reply and release the factory accepts again, it never ends,
\* and under fair scheduling every request is answered.
C16_FactoryServesEveryRequest ==
  /\ [][ CreationStep /\ FactoryLoops ]_vars
  /\ []RepliesDistinct
  /\ <>[]AllCreated

\* C16 witness: two requests with different sizes have been answered with
\* the channels of two different canvases and the factory accepts again.
C16_Witness ==
  \E t \in Creators : \E u \in Creators :
    /\ Len(tasks[t].got) = 1 /\ Len(tasks[u].got) = 1
    /\ tasks[t].got # tasks[u].got
    /\ tasks[t].msgs[1].arg = "s1" /\ tasks[u].msgs[1].arg = "s2"
    /\ canvas[tasks[t].got[1].arg][1].arg = "s1"
    /\ canvas[tasks[u].got[1].arg][1].arg = "s2"
    /\ actor[Factory].pc = "accept"

\* the creation requests whose parameters the factory's closure has run on
ServedRequests ==
  { t \in Creators :
      /\ tasks[t].ip > 2
      /\ \A i \in 1 .. Len(inbox[Factory]) : inbox[Factory][i].from # t }

\* C17: the canvas actors that exist are exactly those the factory made for
\* the creation requests it has served, as many as those requests, and an
\* actor comes to exist only in a creation step of the factory, one per step.
C17_OnlyFactoryStartsActors ==
  /\ [](/\ Existing = ChannelsMade
        /\ Cardinality(Existing) = Cardinality(ServedRequests))
  /\ [][ Existing' # Existing =>
           /\ Creates
           /\ Existing \subseteq Existing'
           /\ Cardinality(Existing') = Cardinality(Existing) + 1 ]_vars

\* C17 witness: the factory has just made the second actor and still has
\* to send its channel, while a client draws on the first canvas.
C17_Witness ==
  /\ Cardinality(Existing) = 2
  /\ actor[Factory].pc = "send"
  /\ \E c \in Existing : actor[c].pc = "receive"


\* C21: no CanvasMessage ends the canvas actor in a panic: whatever the
\* payload, a DrawImage without image data and with any image size among
\* them, the actor is in accept_shared_session or in an arm of its menu.
C21_NoMessagePanics ==
  \A c \in Canvases :
    actor[c].pc \in {"accept", "offer", "receive", "send", "detach"}


\* the labels of the choose! steps of task t
SelectedLabels(t) ==
  { tasks[t].prog[k].label :
      k \in { k \in 1 .. Len(tasks[t].prog) : tasks[t].prog[k].op = "choose" } }

\* a client that is about to select, on a channel whose actor offers to it,
\* selects a label of the offered menu
SelectsOffered(t) ==
  ( /\ ~Finished(t)
    /\ Cur(t).op = "choose"
    /\ actor[ChanOf(t)].pc = "offer"
    /\ actor[ChanOf(t)].client = << t >> ) =>
      Cur(t).label \in actor[ChanOf(t)].menu

\* the actor of c leaves its offer only by its client's selection, into the
\* arm of the selected label
SelectionTaken(c) ==
  (actor[c].pc = "offer" /\ actor'[c] # actor[c]) =>
    \E t \in TaskIds :
      /\ actor[c].client = << t >>
      /\ ~Finished(t)
      /\ Cur(t).op = "choose"
      /\ ChanOf(t) = c
      /\ Cur(t).label \in actor[c].menu
      /\ actor'[c].label = Cur(t).label
      /\ actor'[c].pc \in {"receive", "send"}
      /\ tasks'[t].ip = tasks[t].ip + 1

\* C22: every label a client's session selects (Message, Messages,
\* GetImageData, FromScript) is an arm of the actor's offer; whenever a
\* client is about to select on a channel offered to it, its label is in
\* the offered menu, so no selection is left without a handler; and no
\* selection is ignored: the actor leaves its offer only into the arm of the
\* label its client selected.
C22_EverySelectionHasAnArm ==
  /\ [](\A t \in TaskIds : SelectedLabels(t) \subseteq OfferChoice /\ SelectsOffered(t))
  /\ [][ \A c \in Canvases : SelectionTaken(c) ]_vars

\* C22 witness: send_canvas_messages, draw_image_in_other and the
\* fetch_all_data caller have run to their end, having selected Messages,
\* GetImageData, Message and FromScript between them.
C22_Witness ==
  /\ \A t \in TaskIds : Finished(t)
  /\ UNION { SelectedLabels(t) : t \in TaskIds } =
       {"Message", "Messages", "GetImageData", "FromScript"}


\* the commands of the batches flushed so far, in the order of the flushes
RECURSIVE SentMsgs(_)
SentMsgs(k) ==
  IF k = 0
    THEN <<>>
    ELSE SentMsgs(k - 1) \o (IF tasks[k].kind = "batch" THEN tasks[k].msgs ELSE <<>>)

\* the steps `op` in the session of task t
StepsOf(t, op) == { k \in 1 .. Len(tasks[t].prog) : tasks[t].prog[k].op = op }

\* C23: at every point of every interleaving of send_canvas_message, delayed
\* flushes and get_shared_channel, the commands of the batches flushed so
\* far followed by the commands in the buffer are the submitted commands,
\* each once, in the order of submission; and each batch is carried by one
\* selection, of Messages, with one send_value_to whose value is the batch.
C23_NoCommandLostOrDuplicated ==
  /\ SentMsgs(Len(tasks)) \o message_buffer = SubmittedMsgs
  /\ \A t \in BatchTasks :
       /\ Cardinality(StepsOf(t, "choose")) = 1
       /\ Cardinality(StepsOf(t, "send")) = 1
       /\ SelectedLabels(t) = {"Messages"}
  /\ \A c \in Canvases :
       \A i \in 1 .. Len(inbox[c]) :
         inbox[c][i].from \in BatchTasks =>
           inbox[c][i].val.msgs = tasks[inbox[c][i].from].msgs

\* C23 witness: three commands were submitted; two flushes have sent one
\* batch each, the first batch is on its way to the actor, and the third
\* command waits in the buffer.
C23_Witness ==
  /\ Len(submitted) = 3
  /\ Cardinality(BatchTasks) = 2
  /\ Len(message_buffer) = 1
  /\ \E c \in Canvases : Len(inbox[c]) = 1 /\ inbox[c][1].from \in BatchTasks


\* C24: whenever the buffer is not empty a delayed flush task is
\* outstanding; and, the runtime being fair and every client releasing the
\* channel it acquired, whether or not a further send_canvas_message or
\* get_shared_channel call is made, there is always a later point at which
\* all the commands passed to send_canvas_message so far are applied to the
\* surface, in order: so each of them is eventually applied.
C24_EverySubmittedCommandIsApplied ==
  /\ [](Len(message_buffer) > 0 => timers # {})
  /\ []<>AppliedPrefix(Len(submitted))

\* C24 witness: no get_shared_channel call was ever made, no call is
\* pending, and all three submitted commands, sent by delayed flushes
\* alone, are applied.
C24_Witness ==
  /\ NoGetYet
  /\ Len(submitted) = 3
  /\ timers = {}
  /\ AppliedPrefix(3)


\* menu client t's selection was granted before menu client u's, and the
\* selections granted between the two were of query labels
OnlyQueriesBetween(t, u) ==
  /\ tasks[t].turn # 0
  /\ tasks[t].turn < tasks[u].turn
  /\ \A w \in MenuTasks :
       (tasks[t].turn < tasks[w].turn /\ tasks[w].turn < tasks[u].turn) =>
         LabelOf(w) \in ReplyLabels

\* the actor of c, from the selection of a query label to its detach, makes
\* no call that changes its surface
QueryLeavesSurface(c) ==
  (actor[c].label \in ReplyLabels \/ actor'[c].label \in ReplyLabels) =>
    canvas'[c] = canvas[c]

\* C25: while the actor serves GetTransform, GetImageData, IsPointInPath,
\* FromLayout or FromScript its surface stays as it is; and when two
\* selections of the same query label with the same input are served with
\* no Message, Messages or PutImageData selection between them, the two
\* clients receive the same reply.
C25_QueriesLeaveSurface ==
  /\ [][ \A c \in Canvases : QueryLeavesSurface(c) ]_vars
  /\ [](\A t \in MenuTasks : \A u \in MenuTasks :
          ( /\ LabelOf(t) \in ReplyLabels
            /\ LabelOf(u) = LabelOf(t)
            /\ tasks[u].msgs = tasks[t].msgs
            /\ OnlyQueriesBetween(t, u)
            /\ Answered(t) /\ Answered(u) ) =>
              /\ Len(tasks[t].got) = 1
              /\ tasks[u].got = tasks[t].got)

\* C25 witness: two clients have each received the reply of a GetImageData
\* over r1, one served right after the other, on the used surface.
C25_Witness ==
  \E t \in MenuTasks : \E u \in MenuTasks :
    /\ LabelOf(t) = "GetImageData" /\ LabelOf(u) = "GetImageData"
    /\ tasks[t].msgs = << Payload(<<>>, "r1", <<>>) >>
    /\ tasks[u].msgs = tasks[t].msgs
    /\ ServedNext(t, u)
    /\ Answered(t) /\ Answered(u)
    /\ tasks[u].got = << Obs("read_pixels", "r1", UsedSurface) >>
    /\ canvas[SessionCanvas] = UsedSurface


\* a call of fetch_all_data has returned
Fetched == offscreen.last.op = "fetch_all_data" /\ offscreen.pc = "idle"

\* the size returned is the size the canvas has
ReturnsSize ==
  /\ Len(offscreen.ret.size) = 1
  /\ Dim(0, offscreen.ret.size[1].width) = offscreen.width
  /\ Dim(0, offscreen.ret.size[1].height) = offscreen.height

\* the call started one session, on the channel of the context's canvas,
\* which acquired it, selected FromScript, received the bytes and released
FetchedFromActor ==
  /\ Len(tasks) = offscreen.last.tasks + 1
  /\ LET t == Len(tasks)
     IN  /\ Finished(t)
         /\ tasks[t].held = {}
         /\ SelectedLabels(t) = {"FromScript"}
         /\ Passed(t, "acquire", SessionCanvas) = 1
         /\ Passed(t, "receive", SessionCanvas) = 1
         /\ Passed(t, "release", SessionCanvas) = 1
         /\ Len(tasks[t].got) = 1
         /\ tasks[t].got[1].q = "get_pixels"
         /\ offscreen.ret.data = << FromBytes(tasks[t].got) >>

\* C26: every call of fetch_all_data returns; it returns None, with no
\* session started, when the width or the height is 0; otherwise, with a
\* 2D context, it returns Some((Some(bytes), size)) where the bytes are
\* those the canvas actor replied with to a FromScript selection made
\* between one acquire and one release; and without a context it returns
\* Some((None, size)) with no session started.
C26_FetchAllDataReturns ==
  /\ offscreen.pc # "panicked"
  /\ Fetched =>
       IF IsZero(offscreen.width) \/ IsZero(offscreen.height)
         THEN /\ offscreen.ret.tag = "None"
              /\ Len(tasks) = offscreen.last.tasks
         ELSE IF Len(offscreen.context) = 0
           THEN /\ offscreen.ret.tag = "Some"
                /\ offscreen.ret.data = <<>>
                /\ ReturnsSize
                /\ Len(tasks) = offscreen.last.tasks
           ELSE /\ offscreen.ret.tag = "Some"
                /\ ReturnsSize
                /\ FetchedFromActor

\* a step in which script makes the call `op`
CallStep(op) ==
  /\ offscreen'.calls = offscreen.calls + 1
  /\ offscreen'.last.op = op

\* what a GetContext call does, by its id
GetContextOnce ==
  CallStep("GetContext") =>
    IF offscreen'.last.id = "2d"
      THEN IF Len(offscreen.context) = 0
             THEN /\ offscreen'.created = offscreen.created + 1
                  /\ Len(offscreen'.context) = 1
                  /\ offscreen'.ret = Ret("Some", offscreen'.context, <<>>, <<>>)
             ELSE /\ offscreen'.created = offscreen.created
                  /\ offscreen'.context = offscreen.context
                  /\ offscreen'.ret = Ret("Some", offscreen.context, <<>>, <<>>)
      ELSE /\ offscreen'.created = offscreen.created
           /\ offscreen'.context = offscreen.context
           /\ offscreen'.ret = Ret("None", <<>>, <<>>, <<>>)

\* C27: over any sequence of calls on one OffscreenCanvas at most one 2D
\* context is ever made, and a stored context is never replaced; a
\* GetContext("2d") with no context stored makes one, stores it and returns
\* it; with a context stored it returns that one and makes none; a
\* GetContext with another id returns None, makes none and leaves the
\* stored context as it is.
C27_ContextCreatedOnce ==
  /\ [](offscreen.created <= 1 /\ Len(offscreen.context) = offscreen.created)
  /\ [][ /\ GetContextOnce
         /\ Len(offscreen.context) = 1 => offscreen'.context = offscreen.context ]_vars

\* C27 witness: a GetContext("2d") made the context, a SetWidth or
\* SetHeight told it a size, and a second GetContext("2d") has returned
\* the same context, the only one made.
C27_Witness ==
  /\ offscreen.last.op = "GetContext"
  /\ offscreen.last.id = "2d"
  /\ offscreen.calls = 3
  /\ Len(offscreen.notified) = 1
  /\ offscreen.created = 1
  /\ offscreen.ret = Ret("Some", << 1 >>, <<>>, <<>>)

\* what a step leaves alone when it is said to change nothing else
NothingElse ==
  /\ offscreen'.context = offscreen.context
  /\ offscreen'.created = offscreen.created
  /\ offscreen'.pc = offscreen.pc
  /\ tasks' = tasks

\* the context, if there is one, is told `size` once, and nobody is told
\* anything if there is none
ToldOnce(size) ==
  offscreen'.notified =
    IF Len(offscreen.context) = 1
      THEN Append(offscreen.notified, size)
      ELSE offscreen.notified

\* C28: a SetWidth(v) sets the stored width to v and leaves the height, a
\* SetHeight(v) sets the stored height to v and leaves the width; after
\* either, a context that exists has been told the new (width, height)
\* exactly once, and without a context nothing is told; neither makes a
\* context or changes anything else; and is_valid returns true exactly when
\* neither stored length is 0, changing nothing.
C28_SettersAndIsValid ==
  [][ /\ CallStep("SetWidth") =>
           /\ offscreen'.width = offscreen'.last.value
           /\ offscreen'.height = offscreen.height
           /\ ToldOnce(Size(offscreen'.last.value, offscreen.height))
           /\ NothingElse
      /\ CallStep("SetHeight") =>
           /\ offscreen'.height = offscreen'.last.value
           /\ offscreen'.width = offscreen.width
           /\ ToldOnce(Size(offscreen.width, offscreen'.last.value))
           /\ NothingElse
      /\ CallStep("is_valid") =>
           /\ offscreen'.ret.tag \in {"true", "false"}
           /\ offscreen'.ret.tag = "true" <=>
                (offscreen.width # Dim(0, 0) /\ offscreen.height # Dim(0, 0))
           /\ offscreen'.width = offscreen.width
           /\ offscreen'.height = offscreen.height
           /\ offscreen'.notified = offscreen.notified
           /\ NothingElse ]_vars

\* C28 witness: on a canvas made 0 wide and 1 high, with a 2D context, a
\* SetWidth(2) has been made: the context was told (2, 1) and nothing
\* else, and the canvas is 2 wide and 1 high.
C28_Witness ==
  /\ offscreen.last.op = "SetWidth"
  /\ offscreen.last.value = Dim(0, 2)
  /\ offscreen.width = Dim(0, 2)
  /\ offscreen.height = Dim(0, 1)
  /\ Len(offscreen.context) = 1
  /\ offscreen.notified = << Size(Dim(0, 2), Dim(0, 1)) >>

=============================================================================
